---- MODULE Spec2Model ----
(***************************************************************************)
(* Verification model of the nest-server realtime chat core: the sliding   *)
(* window rate limiter (CacheService.checkRateLimit), the refresh-token    *)
(* denylist (AuthService, RefreshTokenGuard, SessionService) and the       *)
(* message pipeline (MessagesService.sendMessage, KafkaService,            *)
(* MessageProcessorService, ChatGateway).                                  *)
(*                                                                         *)
(* Time is the wall clock in milliseconds (Date.now()).  The clock moves   *)
(* in steps of TickMs.                                                     *)
(***************************************************************************)
EXTENDS Integers, Sequences, FiniteSets, TLC

\* ---------------------------------------------------------------- bounds
TickMs == 500
MaxNow == 2500
RLLimit == 2
RLWindowSeconds == 2
MaxAdmitted == 3
RefreshTtlSeconds == 2
MaxRefresh == 2
MaxMessages == 1
MaxRedeliver == 1
MaxRoomOps == 3
MaxConcOps == 1
MaxSends == 2
MaxPages == 2
HistoryDocs == 51
WaitMs == 200000
MaxRestNow == 450000
GwTickMs == 10000
MaxGwNow == 40000
MaxTimers == 2
MaxIat == 2
MaxParts == 3
MaxPresenceCalls == 3

\* ------------------------------------------------------ program constants
MessageUserLimit == 60
MessageUserWindowSeconds == 60
MessageIPLimit == 100
MessageIPWindowSeconds == 60
RecentCacheMax == 50
RecentCacheTtlSeconds == 300
DefaultLimit == 20
MaxLimit == 100
WebSocketIPLimit == 10
WebSocketIPWindowSeconds == 300
PresenceTtlSeconds == 30
HeartbeatMs == 20000
TypingTimeoutMs == 3000
AccessTtlSeconds == 900
UserCutoffTtlSeconds == 604800
RoomNameMax == 100

\* marks a key without expiry, a local that holds no value
None == 0 - 1

VARIABLES
  now,          \* Date.now(), ms
  rlZset,       \* sorted set under rate_limit:<identifier>: set of [member, score]
  rlExpireAt,   \* expiry instant (ms) of the key rate_limit:<identifier>, or None
  rlPc,         \* position of each caller inside checkRateLimit
  rlId,         \* identifier argument of the caller's current call
  rlNow,        \* the `now` local of the caller's current call
  rlCount,      \* the `currentCount` local of the caller's current call
  rlResult,     \* last result returned to the caller
  rlAdmitted,   \* observed `now` of every call answered allowed=true, per identifier
  redisStr,     \* string keys of the keyed store: set of [key, value, expireAt]
  issued,       \* refresh tokens signed so far, each [sub, iat, exp] (seconds)
  rfPc,         \* position of each POST /auth/refresh request
  rfTok,        \* the refreshToken of the request body
  rfNew,        \* the refresh token generated for the request
  rfResult,     \* response of the request: "none", "ok" or "401"
  rfAfterLogout,\* the request began after logout of its token had completed
  rfStarted,    \* number of refresh requests begun
  rfOk,         \* tokens for which a refresh returned new tokens, in order
  denylisted,   \* tokens a denylist writer was called with while exp was ahead
  loggedOut,    \* tokens for which logout completed before they expired
  rooms,        \* Room documents (ids)
  memberships,  \* Membership documents: [roomId, userId, role]
  msgDocs,      \* Message documents
  recentCache,  \* recent:room:<roomId>: [msgs, expireAt]
  nextMsg,      \* number of the next message document
  inboundLog,   \* topic messages.inbound: [seq, msg] in production order
  moderatedLog, \* topic messages.moderated
  persistedLog, \* topic messages.persisted
  prodSeq,      \* number of events produced so far, over all topics
  inOffset,     \* committed offset of the consumer on messages.inbound
  modOffset,    \* committed offset of the consumer on messages.moderated
  redelivered,  \* number of redeliveries so far
  deliveries,   \* number of deliveries so far
  inTasks,      \* handleInboundMessage calls in flight: [n, msg]
  modTasks,     \* handleModeratedMessage calls in flight: [n, msg]
  sendPending,  \* per socket: the response of sendMessage awaiting its broadcast
  sendErrors,   \* per socket: an 'error' event was emitted to the client
  roomEvents,   \* per room: the events broadcast to channel room:<roomId>, in order
  inboundDone,  \* finished handleInboundMessage calls: [id, expected, sendFailed]
  moderatedDone,\* handleModeratedMessage calls past updateMessageWithModeration: [id, moderation]
  membersCount, \* Room.membersCount, per room id
  rmPc,         \* position of each RoomsService call
  rmArgs,       \* arguments and locals of each RoomsService call
  rmResult,     \* outcome of each RoomsService call
  rmStarted,    \* RoomsService calls begun by each caller
  lastCall,     \* the last MessagesService REST call and what it returned
  gwSock,       \* per socket: state, client.data.user and client.handshake
  gwChannels,   \* per socket: the channels room:<roomId> it has joined
  presenceHash, \* hash user:presence: per user [status, socketId, lastSeen]
  presenceCache,\* presence:<userId>: per user [status, socketId, lastSeen, expireAt]
  roomUsersHash,\* hash room:users: fields <<roomId, userId>>
  userRoomsHash,\* hash user:rooms: fields <<userId, roomId>>
  heartbeatIntervals, \* the gateway's map userId -> interval: [client, nextAt]
  typingUsers,  \* the gateway's map roomId -> set of userIds
  typingTimers, \* pending setTimeout callbacks of handleTyping, in the order set
  gwEmits,      \* the events the last gateway handler emitted
  gwLast,       \* the last gateway handler that ran and its outcome
  wsPc,         \* position of each send_message handler
  wsDoc,        \* the document each send_message handler saved
  vatToken,     \* argument of the last validateAccessToken call
  vatResult,    \* what that call returned
  sanInput,     \* the string handed to the sanitizer
  sanFn,        \* the sanitizer function applied, or "none"
  sanOnce,      \* fn(input)
  sanTwice,     \* fn(fn(input))
  rsResult,     \* what the last RateLimitService.checkRateLimit call returned
  hbTick,       \* per user: the heartbeat callback in flight, [pc, client]
  prCall,       \* per PresenceService call: [op, pc, userId, roomId, todo]
  prStarted     \* PresenceService calls begun

rlVars == <<rlZset, rlExpireAt, rlPc, rlId, rlNow, rlCount, rlResult, rlAdmitted>>

authVars == <<redisStr, issued, rfPc, rfTok, rfNew, rfResult, rfAfterLogout,
              rfStarted, rfOk, denylisted, loggedOut>>

pipeVars == <<rooms, memberships, msgDocs, recentCache, nextMsg, inboundLog,
              moderatedLog, persistedLog, prodSeq, inOffset, modOffset, redelivered,
              deliveries, inTasks, modTasks, sendPending, sendErrors, roomEvents,
              inboundDone, moderatedDone>>

\* the pipeline's variables other than the Room and Membership documents
pipeRest == <<msgDocs, recentCache, nextMsg, inboundLog, moderatedLog, persistedLog,
              prodSeq, inOffset, modOffset, redelivered, deliveries, inTasks, modTasks,
              sendPending, sendErrors, roomEvents, inboundDone, moderatedDone>>

roomVars == <<membersCount, rmPc, rmArgs, rmResult, rmStarted>>

msgVars == <<lastCall>>

gwVars == <<gwSock, gwChannels, presenceHash, presenceCache, roomUsersHash,
            userRoomsHash, heartbeatIntervals, typingUsers, typingTimers,
            gwEmits, gwLast>>

wsVars == <<wsPc, wsDoc>>

fnVars == <<vatToken, vatResult, sanInput, sanFn, sanOnce, sanTwice>>

rsVars == <<rsResult>>

stepVars == <<hbTick, prCall, prStarted>>

\* the gateway, the send_message handlers, the two pure services, the
\* rate-limit service and the handlers taken step by step
extVars == <<gwVars, wsVars, fnVars, rsVars, stepVars>>

\* what the rate limiter's steps leave alone
rlOthers == <<now, authVars, pipeVars, roomVars, extVars, msgVars>>

\* what the auth steps leave alone
authOthers == <<now, rlVars, pipeVars, roomVars, extVars, msgVars>>

\* what the rooms steps leave alone
roomOthers == <<now, rlVars, authVars, pipeRest, msgVars, extVars>>

vars == <<now, rlVars, authVars, pipeVars, roomVars, extVars, msgVars>>

RLCallers == {"c1", "c2"}
RLIdentifiers == {"message:user:u1", "message:user:u2", "message:ip:ip1",
                  "websocket:ip:ip2", "websocket:ip:ip3"}
\* the identifier the direct callers of checkRateLimit use
RLCallIds == {"message:user:u1"}

NoResult == [allowed |-> FALSE, remaining |-> None, resetTime |-> None]

\* ------------------------------------------------------- keyed store (zset)
\* A key whose TTL has elapsed no longer exists.
ZLive(id) ==
  IF rlExpireAt[id] # None /\ now >= rlExpireAt[id] THEN {} ELSE rlZset[id]

\* TTL that survives a write: a key recreated after expiry has no TTL, and a
\* sorted set that became empty is deleted together with its TTL.
ZTtlAfter(id, newSet) ==
  IF newSet = {} THEN None
  ELSE IF ZLive(id) = {} THEN None
  ELSE rlExpireAt[id]

\* ZADD key score member: a member already present only has its score updated.
Zadd(set, score, member) ==
  {e \in set : e.member # member} \cup {[member |-> member, score |-> score]}

\* ZREMRANGEBYSCORE key min max (both bounds inclusive).
Zremrangebyscore(set, min, max) ==
  {e \in set : ~(e.score >= min /\ e.score <= max)}

\* ZCARD key.
Zcard(set) == Cardinality(set)

\* ZRANGE key 0 0: the member with the lowest score, as a list.
Zrange00(set) ==
  IF set = {} THEN <<>>
  ELSE LET lo == CHOOSE e \in set : \A f \in set : e.score <= f.score
       IN <<lo.member>>

\* parseInt of a decimal string produced by Number.prototype.toString.
ParseInt(s) == CHOOSE n \in 0..(MaxNow + 1000 * (RLWindowSeconds + 1)) : ToString(n) = s

\* ---------------------------------------------------------------- clock
Tick ==
  /\ now + TickMs <= MaxNow
  /\ now' = now + TickMs
  \* the store drops the string keys whose TTL elapses at the new instant
  /\ redisStr' = {e \in redisStr : e.expireAt = None \/ now + TickMs < e.expireAt}
  /\ UNCHANGED <<issued, rfPc, rfTok, rfNew, rfResult, rfAfterLogout, rfStarted,
                 rfOk, denylisted, loggedOut>>
  /\ UNCHANGED <<rlVars, pipeVars, roomVars, extVars, msgVars>>

\* ------------------------------------------- CacheService.checkRateLimit
\* const now = Date.now(); const windowStart = now - windowSeconds * 1000;
\* await this.zremrangebyscore(key, 0, windowStart);
RLEvict(c, id) ==
  /\ rlPc[c] = "idle"
  /\ Len(rlAdmitted[id]) < MaxAdmitted
  /\ LET windowStart == now - RLWindowSeconds * 1000
         newSet == Zremrangebyscore(ZLive(id), 0, windowStart)
     IN /\ rlExpireAt' = [rlExpireAt EXCEPT ![id] = ZTtlAfter(id, newSet)]
        /\ rlZset' = [rlZset EXCEPT ![id] = newSet]
  /\ rlId' = [rlId EXCEPT ![c] = id]
  /\ rlNow' = [rlNow EXCEPT ![c] = now]
  /\ rlPc' = [rlPc EXCEPT ![c] = "count"]
  /\ rlResult' = [rlResult EXCEPT ![c] = NoResult]
  /\ UNCHANGED <<rlCount, rlAdmitted>>
  /\ UNCHANGED rlOthers

\* const currentCount = await this.zcard(key);
RLCount(c) ==
  /\ rlPc[c] = "count"
  /\ LET n == Zcard(ZLive(rlId[c]))
     IN /\ rlCount' = [rlCount EXCEPT ![c] = n]
        /\ rlPc' = [rlPc EXCEPT ![c] = IF n >= RLLimit THEN "oldest" ELSE "add"]
  /\ UNCHANGED <<rlZset, rlExpireAt, rlId, rlNow, rlResult, rlAdmitted>>
  /\ UNCHANGED rlOthers

\* if (currentCount >= limit): zrange(key, 0, 0), resetTime, return denied.
RLDeny(c) ==
  /\ rlPc[c] = "oldest"
  /\ LET oldestRequests == Zrange00(ZLive(rlId[c]))
         oldestTime == IF Len(oldestRequests) > 0
                       THEN ParseInt(oldestRequests[1]) ELSE rlNow[c]
     IN rlResult' = [rlResult EXCEPT ![c] =
          [allowed |-> FALSE, remaining |-> 0,
           resetTime |-> oldestTime + RLWindowSeconds * 1000]]
  /\ rlPc' = [rlPc EXCEPT ![c] = "idle"]
  /\ rlNow' = [rlNow EXCEPT ![c] = 0]
  /\ rlCount' = [rlCount EXCEPT ![c] = 0]
  /\ UNCHANGED <<rlZset, rlExpireAt, rlId, rlAdmitted>>
  /\ UNCHANGED rlOthers

\* await this.zadd(key, now, now.toString());
RLAdd(c) ==
  /\ rlPc[c] = "add"
  /\ LET id == rlId[c]
         newSet == Zadd(ZLive(id), rlNow[c], ToString(rlNow[c]))
     IN /\ rlExpireAt' = [rlExpireAt EXCEPT ![id] = ZTtlAfter(id, newSet)]
        /\ rlZset' = [rlZset EXCEPT ![id] = newSet]
  /\ rlPc' = [rlPc EXCEPT ![c] = "expire"]
  /\ UNCHANGED <<rlId, rlNow, rlCount, rlResult, rlAdmitted>>
  /\ UNCHANGED rlOthers

\* await this.expire(key, windowSeconds); return allowed.
RLExpire(c) ==
  /\ rlPc[c] = "expire"
  /\ LET id == rlId[c]
     IN /\ rlExpireAt' = [rlExpireAt EXCEPT ![id] =
              IF ZLive(id) = {} THEN None ELSE now + RLWindowSeconds * 1000]
        /\ rlZset' = [rlZset EXCEPT ![id] = ZLive(id)]
        /\ rlAdmitted' = [rlAdmitted EXCEPT ![id] = Append(@, rlNow[c])]
  /\ rlResult' = [rlResult EXCEPT ![c] =
        [allowed |-> TRUE, remaining |-> RLLimit - rlCount[c] - 1,
         resetTime |-> rlNow[c] + RLWindowSeconds * 1000]]
  /\ rlPc' = [rlPc EXCEPT ![c] = "idle"]
  /\ rlNow' = [rlNow EXCEPT ![c] = 0]
  /\ rlCount' = [rlCount EXCEPT ![c] = 0]
  /\ UNCHANGED rlId
  /\ UNCHANGED rlOthers

RLInit ==
  /\ rlZset = [id \in RLIdentifiers |-> {}]
  /\ rlExpireAt = [id \in RLIdentifiers |-> None]
  /\ rlPc = [c \in RLCallers |-> "idle"]
  /\ rlId = [c \in RLCallers |-> "message:user:u1"]
  /\ rlNow = [c \in RLCallers |-> 0]
  /\ rlCount = [c \in RLCallers |-> 0]
  /\ rlResult = [c \in RLCallers |-> NoResult]
  /\ rlAdmitted = [id \in RLIdentifiers |-> <<>>]

\* =================================================== refresh-token denylist
Users == {"u1"}
RefreshReqs == {"r1", "r2"}

NoToken == [sub |-> "", iat |-> None, exp |-> None]

\* ---------------------------------------------- RedisService (string keys)
\* Keys whose TTL has not elapsed.
RedisLive == {e \in redisStr : e.expireAt = None \/ now < e.expireAt}

\* set(key, value, ttlSeconds?): SET, with EX ttl when a TTL is given.
RedisSet(key, value, ttl) ==
  {e \in RedisLive : e.key # key} \cup
    {[key |-> key, value |-> value,
      expireAt |-> IF ttl = None THEN None ELSE now + ttl * 1000]}

\* exists(key): 1 when the key is present, else 0.
RedisExists(key) == IF \E e \in RedisLive : e.key = key THEN 1 ELSE 0

\* ------------------------------------------------------------- CacheService
\* exists(key): result === 1
CacheExists(key) == RedisExists(key) = 1

\* blacklistToken(token, ttl): key `blacklist:token:${token}`
BlacklistToken(token, ttlSeconds) ==
  RedisSet(<<"blacklist:token:", token>>, "{blacklisted:true}", ttlSeconds)

\* isTokenBlacklisted(token): exists(`blacklist:token:${token}`)
IsTokenBlacklisted(token) == CacheExists(<<"blacklist:token:", token>>)

\* ------------------------------------------------------------------- tokens
\* jwtService.sign: iat = floor(now / 1000), exp = iat + expiresIn.
SignRefresh(u) ==
  [sub |-> u, iat |-> now \div 1000, exp |-> (now \div 1000) + RefreshTtlSeconds]

\* jwtService.verify with the refresh secret: a signed token that has not
\* reached exp (floor(now / 1000) < exp).
JwtVerify(t) == t \in issued /\ (now \div 1000) < t.exp

\* ------------------------------------------------------------- AuthService
\* blacklistRefreshToken: ttl = floor((exp * 1000 - now) / 1000); the marker is
\* written under `blacklist:${refreshToken}` only if ttl > 0.
AuthBlacklistTtl(t) == (t.exp * 1000 - now) \div 1000

BlacklistRefreshToken(t) ==
  IF AuthBlacklistTtl(t) > 0
  THEN RedisSet(<<"blacklist:", t>>, "1", AuthBlacklistTtl(t))
  ELSE RedisLive

\* refresh: redisService.exists(`blacklist:${refreshToken}`)
AuthIsBlacklisted(t) == RedisExists(<<"blacklist:", t>>) # 0

\* RefreshTokenGuard.canActivate: redisService.exists(`blacklist:${refreshToken}`)
GuardIsBlacklisted(t) == RedisExists(<<"blacklist:", t>>) # 0

\* SessionService.isRefreshTokenBlacklisted, as called by the gateway
SessionIsRefreshTokenBlacklisted(t) == IsTokenBlacklisted(t)

\* the two ghost sets: a writer ran on t while t.exp was still ahead
NoteDenylisted(t) ==
  denylisted' = IF now < t.exp * 1000 THEN denylisted \cup {t} ELSE denylisted

\* register / login: generateTokens(user) signs a refresh token.
Login(u) ==
  /\ issued' = issued \cup {SignRefresh(u)}
  /\ SignRefresh(u) \notin issued
  /\ UNCHANGED <<redisStr, rfPc, rfTok, rfNew, rfResult, rfAfterLogout,
                 rfStarted, rfOk, denylisted, loggedOut>>
  /\ UNCHANGED authOthers

\* POST /auth/logout: authService.logout(req.body.refreshToken)
Logout(t) ==
  /\ t \in issued
  /\ redisStr' = BlacklistRefreshToken(t)
  /\ NoteDenylisted(t)
  /\ loggedOut' = IF now < t.exp * 1000 THEN loggedOut \cup {t} ELSE loggedOut
  /\ redisStr' # redisStr \/ denylisted' # denylisted \/ loggedOut' # loggedOut
  /\ UNCHANGED <<issued, rfPc, rfTok, rfNew, rfResult, rfAfterLogout, rfStarted, rfOk>>
  /\ UNCHANGED authOthers

\* SessionService.blacklistRefreshToken: ttl = exp - floor(now / 1000)
SessionBlacklistRefreshToken(t) ==
  /\ t \in issued
  /\ LET ttl == t.exp - (now \div 1000)
     IN redisStr' = IF ttl > 0 THEN BlacklistToken(t, ttl) ELSE RedisLive
  /\ NoteDenylisted(t)
  /\ redisStr' # redisStr \/ denylisted' # denylisted
  /\ UNCHANGED <<issued, rfPc, rfTok, rfNew, rfResult, rfAfterLogout, rfStarted,
                 rfOk, loggedOut>>
  /\ UNCHANGED authOthers

\* POST /auth/refresh, RefreshTokenGuard.canActivate: verify the token, then
\* reject it if denylisted.
RefreshGuard(r, t) ==
  /\ rfPc[r] = "idle"
  /\ rfStarted < MaxRefresh
  /\ t \in issued
  /\ rfStarted' = rfStarted + 1
  /\ rfNew' = [rfNew EXCEPT ![r] = NoToken]
  /\ IF JwtVerify(t) /\ ~GuardIsBlacklisted(t)
     THEN /\ rfPc' = [rfPc EXCEPT ![r] = "service"]
          /\ rfTok' = [rfTok EXCEPT ![r] = t]
          /\ rfAfterLogout' = [rfAfterLogout EXCEPT ![r] = t \in loggedOut]
          /\ rfResult' = [rfResult EXCEPT ![r] = "none"]
     ELSE /\ rfPc' = [rfPc EXCEPT ![r] = "idle"]
          /\ rfTok' = [rfTok EXCEPT ![r] = NoToken]
          /\ rfAfterLogout' = [rfAfterLogout EXCEPT ![r] = FALSE]
          /\ rfResult' = [rfResult EXCEPT ![r] = "401"]
  /\ UNCHANGED <<redisStr, issued, rfOk, denylisted, loggedOut>>
  /\ UNCHANGED authOthers

\* AuthService.refresh, first half: verify, denylist check, findById.
RefreshCheck(r) ==
  /\ rfPc[r] = "service"
  /\ IF JwtVerify(rfTok[r]) /\ ~AuthIsBlacklisted(rfTok[r]) /\ rfTok[r].sub \in Users
     THEN /\ rfPc' = [rfPc EXCEPT ![r] = "generate"]
          /\ UNCHANGED <<rfResult, rfTok, rfAfterLogout>>
     ELSE /\ rfPc' = [rfPc EXCEPT ![r] = "idle"]
          /\ rfTok' = [rfTok EXCEPT ![r] = NoToken]
          /\ rfAfterLogout' = [rfAfterLogout EXCEPT ![r] = FALSE]
          /\ rfResult' = [rfResult EXCEPT ![r] = "401"]
  /\ UNCHANGED <<redisStr, issued, rfNew, rfStarted, rfOk, denylisted, loggedOut>>
  /\ UNCHANGED authOthers

\* AuthService.refresh: const tokens = await this.generateTokens(user)
RefreshGenerate(r) ==
  /\ rfPc[r] = "generate"
  /\ rfNew' = [rfNew EXCEPT ![r] = SignRefresh(rfTok[r].sub)]
  /\ issued' = issued \cup {SignRefresh(rfTok[r].sub)}
  /\ rfPc' = [rfPc EXCEPT ![r] = "blacklist"]
  /\ UNCHANGED <<redisStr, rfTok, rfResult, rfAfterLogout, rfStarted, rfOk,
                 denylisted, loggedOut>>
  /\ UNCHANGED authOthers

\* AuthService.refresh: await this.blacklistRefreshToken(refreshToken); return
RefreshRotate(r) ==
  /\ rfPc[r] = "blacklist"
  /\ redisStr' = BlacklistRefreshToken(rfTok[r])
  /\ NoteDenylisted(rfTok[r])
  /\ rfResult' = [rfResult EXCEPT ![r] = "ok"]
  /\ rfOk' = Append(rfOk, rfTok[r])
  /\ rfPc' = [rfPc EXCEPT ![r] = "idle"]
  /\ UNCHANGED <<issued, rfTok, rfNew, rfAfterLogout, rfStarted, loggedOut>>
  /\ UNCHANGED authOthers

AuthInit ==
  /\ redisStr = {}
  /\ issued = {}
  /\ rfPc = [r \in RefreshReqs |-> "idle"]
  /\ rfTok = [r \in RefreshReqs |-> NoToken]
  /\ rfNew = [r \in RefreshReqs |-> NoToken]
  /\ rfResult = [r \in RefreshReqs |-> "none"]
  /\ rfAfterLogout = [r \in RefreshReqs |-> FALSE]
  /\ rfStarted = 0
  /\ rfOk = <<>>
  /\ denylisted = {}
  /\ loggedOut = {}

\* ========================================================= message pipeline
Rooms == {"r1"}
PipeUsers == {"u1", "u2"}
Sockets == {"s1", "s2"}
\* the authenticated user of each socket and the address of its handshake
SocketUser == [s \in Sockets |-> IF s = "s1" THEN "u1" ELSE "u2"]
SocketIP == [s \in Sockets |-> "ip1"]
\* ObjectId strings: the id of the n-th message document, room and user ids
MsgId(n) == "m" \o ToString(n)
MongoIds == {MsgId(n) : n \in 1..(MaxMessages + MaxSends)} \cup Rooms \cup PipeUsers
\* client-submitted bodies, as token lists
Bodies == {<<"hello">>, <<"javascript:", "hello">>}

\* a JavaScript value with its runtime type
JsBool(b) == [type |-> "boolean", val |-> IF b THEN "true" ELSE "false"]
JsStr(s) == [type |-> "string", val |-> s]

\* -------------------------------------------- class-validator decorators
IsString(v) == v.type = "string"
IsMongoId(v) == v \in MongoIds
IsDateString(v) == v \in Nat
IsMessageType(v) == v \in {"message.sent", "message.moderated", "message.persisted"}

\* MessageMetadata: id, roomId, senderId, body, timestamp, type
ValidMessageMetadata(m) ==
  /\ m.id \in STRING
  /\ IsMongoId(m.roomId)
  /\ IsMongoId(m.senderId)
  /\ m.body \in Seq(STRING)
  /\ IsDateString(m.timestamp)
  /\ IsMessageType(m.type)

\* ModerationResult: @IsString() sentiment, @IsString() flagged,
\* optional reasons (each a string), optional confidence (an object)
ValidModerationResult(r) ==
  /\ r.sentiment \in STRING
  /\ IsString(r.flagged)
  /\ r.reasons \in Seq(STRING)
  /\ DOMAIN r.confidence = {"sentiment", "flagged"}

\* ModeratedMessage extends MessageMetadata: nested moderation, processedAt
ValidModeratedMessage(m) ==
  /\ ValidMessageMetadata(m)
  /\ ValidModerationResult(m.moderation)

\* PersistedMessage extends ModeratedMessage: _id, createdAt, updatedAt
ValidPersistedMessage(m) ==
  /\ ValidModeratedMessage(m)
  /\ IsMongoId(m._id)
  /\ IsDateString(m.createdAt)
  /\ IsDateString(m.updatedAt)

\* KafkaService.validateMessage(topic, message): no validation error
ValidateMessage(topic, m) ==
  CASE topic = "messages.inbound" -> ValidMessageMetadata(m)
    [] topic = "messages.moderated" -> ValidModeratedMessage(m)
    [] topic = "messages.persisted" -> ValidPersistedMessage(m)
    [] OTHER -> TRUE

\* ------------------------------------------------------- external analyzer
\* POST /moderate: an error, or {flagged, reasons?, confidence?}.  The response
\* body is not checked, so flagged arrives as a boolean or as a string.
ModerateOutcomes ==
  { [ok |-> FALSE, flagged |-> JsBool(FALSE), hasReasons |-> FALSE,
     reasons |-> <<>>, hasConfidence |-> FALSE, confidence |-> "0"],
    [ok |-> TRUE, flagged |-> JsBool(FALSE), hasReasons |-> FALSE,
     reasons |-> <<>>, hasConfidence |-> FALSE, confidence |-> "0"],
    [ok |-> TRUE, flagged |-> JsBool(TRUE), hasReasons |-> TRUE,
     reasons |-> <<"toxic">>, hasConfidence |-> TRUE, confidence |-> "0.9"],
    [ok |-> TRUE, flagged |-> JsStr("false"), hasReasons |-> FALSE,
     reasons |-> <<>>, hasConfidence |-> FALSE, confidence |-> "0"] }

\* POST /sentiment: an error, or {sentiment, confidence?}
SentimentOutcomes ==
  { [ok |-> FALSE, sentiment |-> "neutral", hasConfidence |-> FALSE, confidence |-> "0"],
    [ok |-> TRUE, sentiment |-> "positive", hasConfidence |-> TRUE, confidence |-> "0.8"] }

\* x || d for an optional field
OrElse(has, x, d) == IF has THEN x ELSE d

\* ------------------------------------------------ MessageProcessorService
\* a moderated payload that takes its id from the room instead of the message
ModeratedPayloadRoomId(message, moderationResult, sentimentResult) ==
  [id |-> message.roomId, roomId |-> message.roomId, senderId |-> message.senderId,
   body |-> message.body, timestamp |-> message.timestamp, type |-> message.type,
   moderation |->
     [sentiment |-> sentimentResult.sentiment,
      flagged |-> moderationResult.flagged,
      reasons |-> OrElse(moderationResult.hasReasons, moderationResult.reasons, <<>>),
      confidence |->
        [sentiment |-> OrElse(sentimentResult.hasConfidence, sentimentResult.confidence, "0.5"),
         flagged |-> OrElse(moderationResult.hasConfidence, moderationResult.confidence, "0.5")]],
   processedAt |-> now]

\* handleInboundMessage, try block: the moderated payload built from the
\* analyzer's answers.
ModeratedPayload(message, moderationResult, sentimentResult) ==
  [id |-> message.id, roomId |-> message.roomId, senderId |-> message.senderId,
   body |-> message.body, timestamp |-> message.timestamp, type |-> message.type,
   moderation |->
     [sentiment |-> sentimentResult.sentiment,
      flagged |-> moderationResult.flagged,
      reasons |-> OrElse(moderationResult.hasReasons, moderationResult.reasons, <<>>),
      confidence |->
        [sentiment |-> OrElse(sentimentResult.hasConfidence, sentimentResult.confidence, "0.5"),
         flagged |-> OrElse(moderationResult.hasConfidence, moderationResult.confidence, "0.5")]],
   processedAt |-> now]

\* handleInboundMessage, catch block: the default verdict.
DefaultModeration ==
  [sentiment |-> "neutral", flagged |-> JsBool(FALSE), reasons |-> <<>>,
   confidence |-> [sentiment |-> "0.5", flagged |-> "0.5"]]

DefaultModeratedPayload(message) ==
  [id |-> message.id, roomId |-> message.roomId, senderId |-> message.senderId,
   body |-> message.body, timestamp |-> message.timestamp, type |-> message.type,
   moderation |-> DefaultModeration,
   processedAt |-> now]

\* updateMessageWithModeration: returns a stand-in object and touches no document.
UpdateMessageWithModeration(message) ==
  [_id |-> message.id, createdAt |-> message.timestamp, updatedAt |-> now]

\* handleModeratedMessage: the persisted payload.
PersistedPayload(message, updatedMessage) ==
  [id |-> message.id, roomId |-> message.roomId, senderId |-> message.senderId,
   body |-> message.body, timestamp |-> message.timestamp, type |-> message.type,
   moderation |-> message.moderation, processedAt |-> message.processedAt,
   _id |-> updatedMessage._id, createdAt |-> updatedMessage.createdAt,
   updatedAt |-> updatedMessage.updatedAt]

\* ------------------------------------------------------ SanitizationService
\* sanitizeMessageBody, on token lists: the dangerous URI schemes are removed.
SanitizeMessageBody(body) ==
  SelectSeq(body, LAMBDA tok : tok \notin {"javascript:", "data:", "vbscript:"})

\* ------------------------------------ CacheService.checkRateLimit, one call
\* The whole of checkRateLimit on the store (zs, ex), for a caller that is not
\* interleaved with another: the result and the store it leaves.
CheckRateLimit(zs, ex, id, limit, windowSeconds) ==
  LET live == IF ex[id] # None /\ now >= ex[id] THEN {} ELSE zs[id]
      evicted == Zremrangebyscore(live, 0, now - windowSeconds * 1000)
      currentCount == Zcard(evicted)
      oldestRequests == Zrange00(evicted)
      oldestTime == IF Len(oldestRequests) > 0 THEN ParseInt(oldestRequests[1]) ELSE now
  IN IF currentCount >= limit
     THEN [allowed |-> FALSE, remaining |-> 0,
           resetTime |-> oldestTime + windowSeconds * 1000,
           zset |-> [zs EXCEPT ![id] = evicted],
           expireAt |-> [ex EXCEPT ![id] = IF live = {} THEN None ELSE ex[id]]]
     ELSE [allowed |-> TRUE, remaining |-> limit - currentCount - 1,
           resetTime |-> now + windowSeconds * 1000,
           zset |-> [zs EXCEPT ![id] = Zadd(evicted, now, ToString(now))],
           expireAt |-> [ex EXCEPT ![id] = now + windowSeconds * 1000]]

\* ---------------------------------------------------------- MessagesService
NoMsg == [_id |-> "", roomId |-> "", senderId |-> "", body |-> <<>>,
          meta |-> [sentiment |-> "", flagged |-> FALSE, reasons |-> <<>>],
          editedAt |-> None, deletedAt |-> None, createdAt |-> None, updatedAt |-> None]

\* isRoomMember(roomId, userId): a Membership document exists
IsRoomMember(roomId, userId) ==
  \E m \in memberships : m.roomId = roomId /\ m.userId = userId

\* new this.messageModel({...}).save(): the document as stored
NewMessageDoc(id, roomId, senderId, sanitizedBody) ==
  [_id |-> id, roomId |-> roomId, senderId |-> senderId, body |-> sanitizedBody,
   meta |-> [sentiment |-> "neutral", flagged |-> FALSE, reasons |-> <<>>],
   editedAt |-> None, deletedAt |-> None, createdAt |-> now, updatedAt |-> now]

\* toMessageResponse(message)
ToMessageResponse(doc) ==
  [_id |-> doc._id, roomId |-> doc.roomId, senderId |-> doc.senderId,
   body |-> doc.body,
   meta |-> [sentiment |-> doc.meta.sentiment, flagged |-> doc.meta.flagged,
             reasons |-> doc.meta.reasons],
   editedAt |-> doc.editedAt, deletedAt |-> doc.deletedAt,
   createdAt |-> doc.createdAt, updatedAt |-> doc.updatedAt]

\* cacheRecentMessages(roomId, message): prepend, keep the first 50, TTL 300 s
CacheRecentMessages(cache, roomId, message) ==
  LET old == IF cache[roomId].expireAt # None /\ now >= cache[roomId].expireAt
             THEN <<>> ELSE cache[roomId].msgs
      all == <<message>> \o old
      kept == IF Len(all) > RecentCacheMax THEN SubSeq(all, 1, RecentCacheMax) ELSE all
  IN [cache EXCEPT ![roomId] =
        [msgs |-> kept, expireAt |-> now + RecentCacheTtlSeconds * 1000]]

\* the inbound event produced by sendMessage: the body as submitted
InboundPayload(doc, roomId, userId, body) ==
  [id |-> doc._id, roomId |-> roomId, senderId |-> userId, body |-> body,
   timestamp |-> doc.createdAt, type |-> "message.sent"]

\* KafkaService.produce(topic, message): validate, then producer.send
Produce(log, topic, message, sendOk) ==
  IF ValidateMessage(topic, message) /\ sendOk
  THEN Append(log, [seq |-> prodSeq + 1, msg |-> message])
  ELSE log

\* ---------------------------------------------------------------- ChatGateway
\* send_message: WebSocketRoomGuard, then handleSendMessage up to the return of
\* messagesService.sendMessage (rate limits, room and membership checks,
\* sanitize, save, cache, produce to messages.inbound).
HandleSendMessage(s, roomId, body, sendOk) ==
  LET userId == SocketUser[s]
      userRl == CheckRateLimit(rlZset, rlExpireAt, "message:user:" \o userId,
                               MessageUserLimit, MessageUserWindowSeconds)
      ipRl == CheckRateLimit(userRl.zset, userRl.expireAt, "message:ip:" \o SocketIP[s],
                             MessageIPLimit, MessageIPWindowSeconds)
      doc == NewMessageDoc(MsgId(nextMsg), roomId, userId, SanitizeMessageBody(body))
      inbound == InboundPayload(doc, roomId, userId, body)
  IN /\ sendPending[s] = NoMsg
     /\ nextMsg <= MaxMessages
     /\ IF ~IsRoomMember(roomId, userId)
        THEN \* WebSocketRoomGuard: WsException before the handler runs
             /\ sendErrors' = [sendErrors EXCEPT ![s] = TRUE]
             /\ UNCHANGED <<rlZset, rlExpireAt, msgDocs, recentCache, nextMsg,
                            inboundLog, prodSeq, sendPending>>
        ELSE IF ~userRl.allowed
        THEN /\ rlZset' = userRl.zset /\ rlExpireAt' = userRl.expireAt
             /\ sendErrors' = [sendErrors EXCEPT ![s] = TRUE]
             /\ UNCHANGED <<msgDocs, recentCache, nextMsg, inboundLog, prodSeq, sendPending>>
        ELSE IF ~ipRl.allowed \/ roomId \notin rooms
        THEN /\ rlZset' = ipRl.zset /\ rlExpireAt' = ipRl.expireAt
             /\ sendErrors' = [sendErrors EXCEPT ![s] = TRUE]
             /\ UNCHANGED <<msgDocs, recentCache, nextMsg, inboundLog, prodSeq, sendPending>>
        ELSE /\ rlZset' = ipRl.zset /\ rlExpireAt' = ipRl.expireAt
             /\ msgDocs' = msgDocs \cup {doc}
             /\ nextMsg' = nextMsg + 1
             /\ recentCache' = CacheRecentMessages(recentCache, roomId, ToMessageResponse(doc))
             /\ inboundLog' = Produce(inboundLog, "messages.inbound", inbound, sendOk)
             /\ prodSeq' = IF inboundLog' # inboundLog THEN prodSeq + 1 ELSE prodSeq
             /\ sendPending' = [sendPending EXCEPT ![s] = ToMessageResponse(doc)]
             /\ UNCHANGED sendErrors
     /\ UNCHANGED <<rlPc, rlId, rlNow, rlCount, rlResult, rlAdmitted>>
     /\ UNCHANGED <<rooms, memberships, moderatedLog, persistedLog, inOffset, modOffset,
                    redelivered, deliveries, inTasks, modTasks, roomEvents,
                    inboundDone, moderatedDone>>
     /\ UNCHANGED <<now, authVars, roomVars, extVars, msgVars>>

\* the entry a broadcast of (event, {message, roomId}) adds to the room's channel:
\* the message's id and the meta its payload carries, if any
RoomEvent(event, message) ==
  [event |-> event, id |-> message._id,
   hasMeta |-> "meta" \in DOMAIN message,
   sentiment |-> IF "meta" \in DOMAIN message THEN message.meta.sentiment ELSE "undefined"]

\* emitMessageUpdated(roomId, message)
EmitMessageUpdated(events, roomId, message) ==
  [events EXCEPT ![roomId] = Append(@, RoomEvent("message_updated", message))]

\* handleSendMessage after the await: server.to(room).emit('message_created')
EmitMessageCreated(s) ==
  /\ sendPending[s] # NoMsg
  /\ roomEvents' = [roomEvents EXCEPT ![sendPending[s].roomId] =
        Append(@, RoomEvent("message_created", sendPending[s]))]
  /\ sendPending' = [sendPending EXCEPT ![s] = NoMsg]
  /\ UNCHANGED <<rooms, memberships, msgDocs, recentCache, nextMsg, inboundLog,
                 moderatedLog, persistedLog, prodSeq, inOffset, modOffset, redelivered,
                 deliveries, inTasks, modTasks, sendErrors, inboundDone, moderatedDone>>
  /\ UNCHANGED <<now, rlVars, authVars, roomVars, extVars, msgVars>>

\* ------------------------------------------------------- KafkaService.consume
\* eachMessage on messages.inbound: parse, validate, then callback(message)
\* without awaiting it; a message that fails validation is logged and skipped.
DeliverInbound ==
  /\ inOffset < Len(inboundLog)
  /\ inOffset' = inOffset + 1
  /\ deliveries' = deliveries + 1
  /\ LET m == inboundLog[inOffset + 1].msg
     IN inTasks' = IF ValidateMessage("messages.inbound", m)
                   THEN inTasks \cup {[n |-> deliveries + 1, msg |-> m]}
                   ELSE inTasks
  /\ UNCHANGED <<rooms, memberships, msgDocs, recentCache, nextMsg, inboundLog,
                 moderatedLog, persistedLog, prodSeq, modOffset, redelivered,
                 modTasks, sendPending, sendErrors, roomEvents, inboundDone, moderatedDone>>
  /\ UNCHANGED <<now, rlVars, authVars, roomVars, extVars, msgVars>>

\* at-least-once delivery: the broker hands an inbound event that was already
\* consumed to the consumer again.
RedeliverInbound(i) ==
  /\ i \in 1..inOffset
  /\ redelivered < MaxRedeliver
  /\ redelivered' = redelivered + 1
  /\ deliveries' = deliveries + 1
  /\ LET m == inboundLog[i].msg
     IN inTasks' = IF ValidateMessage("messages.inbound", m)
                   THEN inTasks \cup {[n |-> deliveries + 1, msg |-> m]}
                   ELSE inTasks
  /\ UNCHANGED <<rooms, memberships, msgDocs, recentCache, nextMsg, inboundLog,
                 moderatedLog, persistedLog, prodSeq, inOffset, modOffset,
                 modTasks, sendPending, sendErrors, roomEvents, inboundDone, moderatedDone>>
  /\ UNCHANGED <<now, rlVars, authVars, roomVars, extVars, msgVars>>

\* eachMessage on messages.moderated
DeliverModerated ==
  /\ modOffset < Len(moderatedLog)
  /\ modOffset' = modOffset + 1
  /\ deliveries' = deliveries + 1
  /\ LET m == moderatedLog[modOffset + 1].msg
     IN modTasks' = IF ValidateMessage("messages.moderated", m)
                    THEN modTasks \cup {[n |-> deliveries + 1, msg |-> m]}
                    ELSE modTasks
  /\ UNCHANGED <<rooms, memberships, msgDocs, recentCache, nextMsg, inboundLog,
                 moderatedLog, persistedLog, prodSeq, inOffset, redelivered,
                 inTasks, sendPending, sendErrors, roomEvents, inboundDone, moderatedDone>>
  /\ UNCHANGED <<now, rlVars, authVars, roomVars, extVars, msgVars>>

\* ------------------------------ MessageProcessorService.handleInboundMessage
\* Both analyzer calls, the moderated payload and its produce; on any error the
\* default payload and its produce.  sendOk1 / sendOk2: whether the broker takes
\* the first / the second producer.send.
HandleInboundMessage(task, moderationResult, sentimentResult, sendOk1, sendOk2) ==
  LET message == task.msg
      verdict == ModeratedPayload(message, moderationResult, sentimentResult)
      default == DefaultModeratedPayload(message)
      analyzed == moderationResult.ok /\ sentimentResult.ok
      first == IF analyzed
               THEN Produce(moderatedLog, "messages.moderated", verdict, sendOk1)
               ELSE moderatedLog
      tryOk == analyzed /\ first # moderatedLog
      final == IF tryOk THEN first
               ELSE Produce(moderatedLog, "messages.moderated", default, sendOk2)
      \* producer.send was reached and the broker refused it
      refused1 == analyzed /\ ValidateMessage("messages.moderated", verdict) /\ ~sendOk1
      refused2 == ~tryOk /\ ValidateMessage("messages.moderated", default) /\ ~sendOk2
  IN /\ task \in inTasks
     /\ inTasks' = inTasks \ {task}
     /\ moderatedLog' = final
     /\ prodSeq' = IF final # moderatedLog THEN prodSeq + 1 ELSE prodSeq
     /\ inboundDone' = inboundDone \cup
          {[id |-> message.id,
            expected |-> IF analyzed THEN verdict.moderation ELSE DefaultModeration,
            sendFailed |-> refused1 \/ refused2]}
     /\ UNCHANGED <<rooms, memberships, msgDocs, recentCache, nextMsg, inboundLog,
                    persistedLog, inOffset, modOffset, redelivered, deliveries,
                    modTasks, sendPending, sendErrors, roomEvents, moderatedDone>>
     /\ UNCHANGED <<now, rlVars, authVars, roomVars, extVars, msgVars>>

\* a handler that emits message_updated whether or not the produce succeeded
HandleModeratedMessageEmitAlways(task, sendOk) ==
  LET message == task.msg
      updatedMessage == UpdateMessageWithModeration(message)
      persisted == PersistedPayload(message, updatedMessage)
      log == Produce(persistedLog, "messages.persisted", persisted, sendOk)
      produced == log # persistedLog
  IN /\ task \in modTasks
     /\ modTasks' = modTasks \ {task}
     /\ persistedLog' = log
     /\ prodSeq' = IF produced THEN prodSeq + 1 ELSE prodSeq
     /\ roomEvents' = EmitMessageUpdated(roomEvents, message.roomId, updatedMessage)
     /\ moderatedDone' = moderatedDone \cup
          {[id |-> message.id, moderation |-> message.moderation]}
     /\ UNCHANGED <<rooms, memberships, msgDocs, recentCache, nextMsg, inboundLog,
                    moderatedLog, inOffset, modOffset, redelivered, deliveries,
                    inTasks, sendPending, sendErrors, inboundDone>>
     /\ UNCHANGED <<now, rlVars, authVars, roomVars, extVars, msgVars>>

\* ---------------------------- MessageProcessorService.handleModeratedMessage
\* updateMessageWithModeration, produce to messages.persisted, then
\* chatGateway.emitMessageUpdated(roomId, updatedMessage); an error in the
\* produce skips the emit.
HandleModeratedMessage(task, sendOk) ==
  LET message == task.msg
      updatedMessage == UpdateMessageWithModeration(message)
      persisted == PersistedPayload(message, updatedMessage)
      log == Produce(persistedLog, "messages.persisted", persisted, sendOk)
      produced == log # persistedLog
  IN /\ task \in modTasks
     /\ modTasks' = modTasks \ {task}
     /\ persistedLog' = log
     /\ prodSeq' = IF produced THEN prodSeq + 1 ELSE prodSeq
     /\ roomEvents' = IF produced
          THEN EmitMessageUpdated(roomEvents, message.roomId, updatedMessage)
          ELSE roomEvents
     /\ moderatedDone' = moderatedDone \cup
          {[id |-> message.id, moderation |-> message.moderation]}
     /\ UNCHANGED <<rooms, memberships, msgDocs, recentCache, nextMsg, inboundLog,
                    moderatedLog, inOffset, modOffset, redelivered, deliveries,
                    inTasks, sendPending, sendErrors, inboundDone>>
     /\ UNCHANGED <<now, rlVars, authVars, roomVars, extVars, msgVars>>

PipeInit ==
  /\ rooms = Rooms
  /\ memberships = {[_id |-> 0, roomId |-> "r1", userId |-> "u1", role |-> "owner"]}
  /\ msgDocs = {}
  /\ recentCache = [r \in Rooms |-> [msgs |-> <<>>, expireAt |-> None]]
  /\ nextMsg = 1
  /\ inboundLog = <<>>
  /\ moderatedLog = <<>>
  /\ persistedLog = <<>>
  /\ prodSeq = 0
  /\ inOffset = 0
  /\ modOffset = 0
  /\ redelivered = 0
  /\ deliveries = 0
  /\ inTasks = {}
  /\ modTasks = {}
  /\ sendPending = [s \in Sockets |-> NoMsg]
  /\ sendErrors = [s \in Sockets |-> FALSE]
  /\ roomEvents = [r \in Rooms |-> <<>>]
  /\ inboundDone = {}
  /\ moderatedDone = {}

\* ================================================== MessagesService over REST
\* users that call the REST endpoints: u1 is a member of r1, u2 is not
RestUsers == {"u1", "u2"}
\* a room id with no Room document
NoSuchRoom == "r0"
\* request.ip of the caller, "" when the request carries none
RestIPs == {"ip1", ""}
\* body of a send and body of an edit, as token lists
SendBody == <<"javascript:", "hello">>
EditBody == <<"javascript:", "edited">>
\* page, limit and cursor of a history request
Pages == 1..MaxPages
Limits == {1, DefaultLimit, MaxLimit}
NoCursor == ""

\* ids of the messages of a room's earlier history
HistId(n) == "h" \o ToString(n)

\* a message document of the earlier history: sent by u1 in r1 at instant n
HistoryDoc(n) ==
  [_id |-> HistId(n), roomId |-> "r1", senderId |-> "u1",
   body |-> SanitizeMessageBody(SendBody),
   meta |-> [sentiment |-> "neutral", flagged |-> FALSE, reasons |-> <<>>],
   editedAt |-> None, deletedAt |-> None, createdAt |-> n, updatedAt |-> n]

\* insertion number of a message id
OrdOf(id) ==
  CHOOSE n \in 1..(HistoryDocs + MaxSends + MaxMessages) :
    \/ (n <= HistoryDocs /\ id = HistId(n))
    \/ (n > HistoryDocs /\ id = MsgId(n - HistoryDocs))

\* .sort({createdAt: -1}): a comes before b; documents of one millisecond are
\* taken newest first
Before(a, b) ==
  \/ a.createdAt > b.createdAt
  \/ (a.createdAt = b.createdAt /\ OrdOf(a._id) > OrdOf(b._id))

\* the documents of a set in the order of .sort({createdAt: -1}): each stands
\* after the documents that come before it
SortDesc(S) ==
  LET ahead == [d \in S |-> Cardinality({e \in S : Before(e, d)})]
  IN [i \in 1..Cardinality(S) |-> CHOOSE d \in S : ahead[d] = i - 1]

\* seq.slice(from, from + count), from counted from 0
Slice(seq, from, count) ==
  IF from >= Len(seq) THEN <<>>
  ELSE SubSeq(seq, from + 1, IF from + count > Len(seq) THEN Len(seq) ELSE from + count)

\* messageModel.findById(id): the document exists
HasDoc(id) == \E d \in msgDocs : d._id = id

FindDoc(id) == CHOOSE d \in msgDocs : d._id = id

\* cacheService.getRecentMessages(roomId): the cached list, <<>> when the key
\* is absent or its TTL has elapsed
GetRecentMessages(roomId) ==
  IF recentCache[roomId].expireAt = None \/ now >= recentCache[roomId].expireAt
  THEN <<>> ELSE recentCache[roomId].msgs

\* cacheService.cacheRecentMessages(roomId, messages): set with TTL 300 s
SetRecentMessages(cache, roomId, messages) ==
  [cache EXCEPT ![roomId] =
     [msgs |-> messages, expireAt |-> now + RecentCacheTtlSeconds * 1000]]

\* getMessages: page 1 without cursor is answered from a non-empty cached list
ServedFromCache(roomId, page, cursor) ==
  page = 1 /\ cursor = NoCursor /\ Len(GetRecentMessages(roomId)) > 0

\* getMessages: the database query of a page
QueryPage(roomId, page, limit, cursor) ==
  LET live == {d \in msgDocs : d.roomId = roomId /\ d.deletedAt = None}
      sel == IF cursor = NoCursor THEN live
             ELSE {d \in live : d.createdAt < FindDoc(cursor).createdAt}
      sorted == SortDesc(sel)
      found == Slice(sorted, (page - 1) * limit, limit)
  IN [k \in 1..Len(found) |-> ToMessageResponse(found[k])]

\* getMessages: the `messages` of the response
ListMessages(roomId, page, limit, cursor) ==
  IF ServedFromCache(roomId, page, cursor)
  THEN Slice(GetRecentMessages(roomId), 0, limit)
  ELSE QueryPage(roomId, page, limit, cursor)

\* a call record with no result: the operation, the room and user of a send,
\* the message id named or created, the exception or "ok", the messages of the
\* response, and what failed underneath
NoRest == [op |-> "none", roomId |-> "", userId |-> "", id |-> "",
           result |-> "none", fromCache |-> FALSE, messages |-> <<>>,
           cacheFailed |-> FALSE, sendFailed |-> FALSE]

\* a send that skips the membership check
SendDecisionNoMembership(userAllowed, ipAllowed, roomExists, isMember) ==
  IF ~userAllowed THEN "TooManyRequests"
  ELSE IF ~ipAllowed THEN "TooManyRequests"
  ELSE IF ~roomExists THEN "NotFound"
  ELSE "ok"

\* sendMessage, the checks in their order: the exception thrown, or "ok"
SendDecision(userAllowed, ipAllowed, roomExists, isMember) ==
  IF ~userAllowed THEN "TooManyRequests"
  ELSE IF ~ipAllowed THEN "TooManyRequests"
  ELSE IF ~roomExists THEN "NotFound"
  ELSE IF ~isMember THEN "Forbidden"
  ELSE "ok"

\* a send that fails when the cache write or the produce fails
SendCompletionStrict(cacheOk, sendOk) ==
  IF cacheOk /\ sendOk THEN "ok" ELSE "InternalServerError"

\* sendMessage after the save: errors of the cache write and of the produce
\* are caught and logged
SendCompletion(cacheOk, sendOk) == "ok"

\* POST /rooms/:roomId/messages: MessagesService.sendMessage.  cacheOk / sendOk:
\* whether the cache write / the broker's producer.send succeeds.
SendMessage(u, roomId, ip, cacheOk, sendOk) ==
  LET userRl == CheckRateLimit(rlZset, rlExpireAt, "message:user:" \o u,
                               MessageUserLimit, MessageUserWindowSeconds)
      ipRl == IF ip = "" \/ ~userRl.allowed
              THEN [allowed |-> TRUE, zset |-> userRl.zset, expireAt |-> userRl.expireAt]
              ELSE CheckRateLimit(userRl.zset, userRl.expireAt, "message:ip:" \o ip,
                                  MessageIPLimit, MessageIPWindowSeconds)
      d == SendDecision(userRl.allowed, ipRl.allowed, roomId \in rooms,
                        IsRoomMember(roomId, u))
      doc == NewMessageDoc(MsgId(nextMsg), roomId, u, SanitizeMessageBody(SendBody))
      inbound == InboundPayload(doc, roomId, u, SendBody)
      done == SendCompletion(cacheOk, sendOk)
      call == [NoRest EXCEPT !.op = "send", !.roomId = roomId, !.userId = u]
  IN /\ nextMsg <= MaxSends
     /\ rlZset' = ipRl.zset
     /\ rlExpireAt' = ipRl.expireAt
     /\ IF d # "ok"
        THEN /\ lastCall' = [call EXCEPT !.result = d]
             /\ UNCHANGED <<msgDocs, nextMsg, recentCache, inboundLog, prodSeq>>
        ELSE /\ msgDocs' = msgDocs \cup {doc}
             /\ nextMsg' = nextMsg + 1
             /\ recentCache' = IF cacheOk
                               THEN CacheRecentMessages(recentCache, roomId,
                                                        ToMessageResponse(doc))
                               ELSE recentCache
             /\ inboundLog' = Produce(inboundLog, "messages.inbound", inbound, sendOk)
             /\ prodSeq' = IF inboundLog' # inboundLog THEN prodSeq + 1 ELSE prodSeq
             /\ lastCall' = [call EXCEPT !.result = done, !.id = doc._id,
                                         !.messages = IF done = "ok"
                                                      THEN <<ToMessageResponse(doc)>>
                                                      ELSE <<>>,
                                         !.cacheFailed = ~cacheOk,
                                         !.sendFailed = ~sendOk]
     /\ UNCHANGED <<rlPc, rlId, rlNow, rlCount, rlResult, rlAdmitted>>
     /\ UNCHANGED <<rooms, memberships, moderatedLog, persistedLog, inOffset, modOffset,
                    redelivered, deliveries, inTasks, modTasks, sendPending, sendErrors,
                    roomEvents, inboundDone, moderatedDone>>
     /\ UNCHANGED <<now, authVars, roomVars, extVars>>

\* GET /rooms/:roomId/messages: MessagesService.getMessages
GetMessages(u, roomId, page, limit, cursor) ==
  LET call == [NoRest EXCEPT !.op = "list"]
      result == IF roomId \notin rooms THEN "NotFound"
                ELSE IF ~IsRoomMember(roomId, u) THEN "Forbidden"
                ELSE IF ServedFromCache(roomId, page, cursor) THEN "ok"
                ELSE IF cursor # NoCursor /\ ~HasDoc(cursor) THEN "BadRequest"
                ELSE "ok"
  IN /\ IF result # "ok"
        THEN /\ lastCall' = [call EXCEPT !.result = result]
             /\ UNCHANGED recentCache
        ELSE /\ lastCall' = [call EXCEPT !.result = "ok",
                                         !.fromCache = ServedFromCache(roomId, page, cursor),
                                         !.messages = ListMessages(roomId, page, limit, cursor)]
             /\ recentCache' =
                  IF page = 1 /\ cursor = NoCursor /\ ~ServedFromCache(roomId, page, cursor)
                  THEN SetRecentMessages(recentCache, roomId,
                                         QueryPage(roomId, page, limit, cursor))
                  ELSE recentCache
     /\ UNCHANGED <<rooms, memberships, msgDocs, nextMsg, inboundLog, moderatedLog,
                    persistedLog, prodSeq, inOffset, modOffset, redelivered, deliveries,
                    inTasks, modTasks, sendPending, sendErrors, roomEvents,
                    inboundDone, moderatedDone>>
     /\ UNCHANGED <<now, rlVars, authVars, roomVars, extVars>>

\* updateMessage / deleteMessage, the checks: the exception thrown, or "ok"
OwnMessageDecision(id, u) ==
  IF ~HasDoc(id) THEN "NotFound"
  ELSE IF FindDoc(id).deletedAt # None THEN "NotFound"
  ELSE IF FindDoc(id).senderId # u THEN "Forbidden"
  ELSE "ok"

\* PATCH /messages/:id: MessagesService.updateMessage
UpdateMessage(u, id) ==
  LET call == [NoRest EXCEPT !.op = "edit", !.id = id]
      d == OwnMessageDecision(id, u)
      updated == [FindDoc(id) EXCEPT !.body = EditBody, !.editedAt = now, !.updatedAt = now]
  IN /\ IF d # "ok"
        THEN /\ lastCall' = [call EXCEPT !.result = d]
             /\ UNCHANGED msgDocs
        ELSE /\ msgDocs' = (msgDocs \ {FindDoc(id)}) \cup {updated}
             /\ lastCall' = [call EXCEPT !.result = "ok",
                                         !.messages = <<ToMessageResponse(updated)>>]
     /\ UNCHANGED <<rooms, memberships, recentCache, nextMsg, inboundLog, moderatedLog,
                    persistedLog, prodSeq, inOffset, modOffset, redelivered, deliveries,
                    inTasks, modTasks, sendPending, sendErrors, roomEvents,
                    inboundDone, moderatedDone>>
     /\ UNCHANGED <<now, rlVars, authVars, roomVars, extVars>>

\* DELETE /messages/:id: MessagesService.deleteMessage (soft delete)
DeleteMessage(u, id) ==
  LET call == [NoRest EXCEPT !.op = "delete", !.id = id]
      d == OwnMessageDecision(id, u)
      deleted == [FindDoc(id) EXCEPT !.deletedAt = now, !.updatedAt = now]
  IN /\ IF d # "ok"
        THEN /\ lastCall' = [call EXCEPT !.result = d]
             /\ UNCHANGED msgDocs
        ELSE /\ msgDocs' = (msgDocs \ {FindDoc(id)}) \cup {deleted}
             /\ lastCall' = [call EXCEPT !.result = "ok"]
     /\ UNCHANGED <<rooms, memberships, recentCache, nextMsg, inboundLog, moderatedLog,
                    persistedLog, prodSeq, inOffset, modOffset, redelivered, deliveries,
                    inTasks, modTasks, sendPending, sendErrors, roomEvents,
                    inboundDone, moderatedDone>>
     /\ UNCHANGED <<now, rlVars, authVars, roomVars, extVars>>

\* GET /messages/:id: MessagesService.getMessageById
GetMessageById(u, id) ==
  LET call == [NoRest EXCEPT !.op = "get", !.id = id]
      d == IF ~HasDoc(id) THEN "NotFound"
           ELSE IF FindDoc(id).deletedAt # None THEN "NotFound"
           ELSE IF ~IsRoomMember(FindDoc(id).roomId, u) THEN "Forbidden"
           ELSE "ok"
  IN /\ lastCall' = IF d = "ok"
                    THEN [call EXCEPT !.result = "ok",
                                      !.messages = <<ToMessageResponse(FindDoc(id))>>]
                    ELSE [call EXCEPT !.result = d]
     /\ UNCHANGED pipeVars
     /\ UNCHANGED <<now, rlVars, authVars, roomVars, extVars>>

\* time passes between two requests; lastCall holds a call only while the
\* clock has not moved since
Wait ==
  /\ now + WaitMs <= MaxRestNow
  /\ now' = now + WaitMs
  /\ lastCall' = NoRest
  \* the store drops the keys whose TTL elapses meanwhile
  /\ rlZset' = [id \in RLIdentifiers |->
                  IF rlExpireAt[id] # None /\ now' >= rlExpireAt[id] THEN {} ELSE rlZset[id]]
  /\ rlExpireAt' = [id \in RLIdentifiers |->
                      IF rlExpireAt[id] # None /\ now' >= rlExpireAt[id]
                      THEN None ELSE rlExpireAt[id]]
  /\ recentCache' = [r \in Rooms |->
                       IF recentCache[r].expireAt # None /\ now' >= recentCache[r].expireAt
                       THEN [msgs |-> <<>>, expireAt |-> None] ELSE recentCache[r]]
  /\ UNCHANGED <<rlPc, rlId, rlNow, rlCount, rlResult, rlAdmitted>>
  /\ UNCHANGED <<rooms, memberships, msgDocs, nextMsg, inboundLog, moderatedLog,
                 persistedLog, prodSeq, inOffset, modOffset, redelivered, deliveries,
                 inTasks, modTasks, sendPending, sendErrors, roomEvents,
                 inboundDone, moderatedDone>>
  /\ UNCHANGED <<authVars, roomVars, extVars>>

MsgInit == lastCall = NoRest

\* ================================================================ rooms
\* room ids: the room that exists from the start and the one createRoom makes
RoomIds == Rooms \cup {"r2"}
\* User documents
RoomUsers == {"u1", "u2", "u3"}
\* a user id with no User document
NoSuchUser == "u0"
Roles == {"owner", "moderator", "member"}
\* RoomsService calls: k1 makes its calls one after the other, k2 and k3 make
\* theirs concurrently
RoomCalls == {"k1", "k2", "k3"}
ConcCalls == RoomCalls \ {"k1"}

NoCall == [op |-> "none", roomId |-> "", userId |-> "", caller |-> "", role |-> "",
           n |-> 0, targetId |-> None]

\* membershipModel.findOne({roomId, userId}): the document, if any
HasMembership(roomId, userId) ==
  \E m \in memberships : m.roomId = roomId /\ m.userId = userId

FindMembership(roomId, userId) ==
  CHOOSE m \in memberships : m.roomId = roomId /\ m.userId = userId

\* membership?.role, "none" without a document
MembershipRole(roomId, userId) ==
  IF HasMembership(roomId, userId) THEN FindMembership(roomId, userId).role ELSE "none"

\* the first caller, and the calls each caller may make
SeqCall == "k1"
CallBudget(k) == IF k = SeqCall THEN MaxRoomOps ELSE MaxConcOps

\* calls begun so far, by all callers
RECURSIVE StartedBy(_)
StartedBy(K) ==
  IF K = {} THEN 0
  ELSE LET k == CHOOSE c \in K : TRUE IN rmStarted[k] + StartedBy(K \ {k})

Started == StartedBy(RoomCalls)

\* a RoomsService call begins
RoomCallStart(k) ==
  /\ rmPc[k] = "idle"
  /\ rmStarted[k] < CallBudget(k)

\* a moderator may also remove another moderator
RemoveDecisionLax(callerRole, targetRole, self) ==
  IF callerRole = "none" THEN "Forbidden"
  ELSE IF targetRole = "none" THEN "NotFound"
  ELSE IF self THEN "ok"
  ELSE IF targetRole = "owner" THEN "Forbidden"
  ELSE IF callerRole = "member" THEN "Forbidden"
  ELSE "ok"

\* removeMember, the membership and permission checks: the exception thrown, or "ok"
RemoveDecision(callerRole, targetRole, self) ==
  IF callerRole = "none" THEN "Forbidden"
  ELSE IF targetRole = "none" THEN "NotFound"
  ELSE IF self THEN "ok"
  ELSE IF targetRole = "owner" THEN "Forbidden"
  ELSE IF callerRole = "member" THEN "Forbidden"
  ELSE IF callerRole = "moderator" /\ targetRole = "moderator" THEN "Forbidden"
  ELSE "ok"

\* a moderator may also change roles
RoleDecisionLax(callerRole, targetRole, self) ==
  IF callerRole = "none" THEN "Forbidden"
  ELSE IF callerRole = "member" THEN "Forbidden"
  ELSE IF targetRole = "none" THEN "NotFound"
  ELSE IF self THEN "Forbidden"
  ELSE "ok"

\* updateMemberRole, the checks: the exception thrown, or "ok"
RoleDecision(callerRole, targetRole, self) ==
  IF callerRole = "none" THEN "Forbidden"
  ELSE IF callerRole # "owner" THEN "Forbidden"
  ELSE IF targetRole = "none" THEN "NotFound"
  ELSE IF self THEN "Forbidden"
  ELSE "ok"

\* addMember, the checks: the exception thrown, or "ok"
AddDecision(roomExists, callerRole, userExists, targetRole) ==
  IF ~roomExists THEN "NotFound"
  ELSE IF callerRole = "none" THEN "Forbidden"
  ELSE IF callerRole \notin {"owner", "moderator"} THEN "Forbidden"
  ELSE IF ~userExists THEN "NotFound"
  ELSE IF targetRole # "none" THEN "Conflict"
  ELSE "ok"

\* the call returns or throws: its outcome is kept, its position is idle again
RoomCallEnds(k, args, outcome) ==
  /\ rmPc' = [rmPc EXCEPT ![k] = "idle"]
  /\ rmArgs' = [rmArgs EXCEPT ![k] = args]
  /\ rmResult' = [rmResult EXCEPT ![k] = outcome]

\* createRoom: new roomModel({..., membersCount: 1}).save()
CreateRoomSave(k, caller) ==
  /\ RoomCallStart(k)
  /\ rooms # RoomIds
  /\ LET id == CHOOSE r \in RoomIds : r \notin rooms
     IN /\ rooms' = rooms \cup {id}
        /\ membersCount' = [membersCount EXCEPT ![id] = 1]
        /\ rmArgs' = [rmArgs EXCEPT ![k] =
             [NoCall EXCEPT !.op = "createRoom", !.roomId = id, !.caller = caller,
                            !.n = Started + 1]]
  /\ rmPc' = [rmPc EXCEPT ![k] = "create_member"]
  /\ rmResult' = [rmResult EXCEPT ![k] = "none"]
  /\ rmStarted' = [rmStarted EXCEPT ![k] = @ + 1]
  /\ UNCHANGED memberships
  /\ UNCHANGED roomOthers

\* createRoom: membershipModel.create({roomId, userId, role: 'owner'}); return
CreateRoomMember(k) ==
  /\ rmPc[k] = "create_member"
  /\ memberships' = memberships \cup
       {[_id |-> rmArgs[k].n, roomId |-> rmArgs[k].roomId,
         userId |-> rmArgs[k].caller, role |-> "owner"]}
  /\ RoomCallEnds(k, rmArgs[k], "ok")
  /\ UNCHANGED <<rooms, membersCount, rmStarted>>
  /\ UNCHANGED roomOthers

\* addMember up to the existing-membership check
AddMemberCheck(k, roomId, userId, role, caller) ==
  /\ RoomCallStart(k)
  /\ rmStarted' = [rmStarted EXCEPT ![k] = @ + 1]
  /\ LET d == AddDecision(roomId \in rooms, MembershipRole(roomId, caller),
                          userId \in RoomUsers, MembershipRole(roomId, userId))
         args == [NoCall EXCEPT !.op = "addMember", !.roomId = roomId, !.userId = userId,
                                !.caller = caller, !.role = role, !.n = Started + 1]
     IN IF d = "ok"
        THEN /\ rmPc' = [rmPc EXCEPT ![k] = "add_save"]
             /\ rmArgs' = [rmArgs EXCEPT ![k] = args]
             /\ rmResult' = [rmResult EXCEPT ![k] = "none"]
        ELSE RoomCallEnds(k, args, d)
  /\ UNCHANGED <<rooms, memberships, membersCount>>
  /\ UNCHANGED roomOthers

\* addMember: membership.save(); the unique index {roomId, userId} rejects a
\* second document for the pair
AddMemberSave(k) ==
  /\ rmPc[k] = "add_save"
  /\ IF HasMembership(rmArgs[k].roomId, rmArgs[k].userId)
     THEN /\ RoomCallEnds(k, rmArgs[k], "DuplicateKey")
          /\ UNCHANGED memberships
     ELSE /\ memberships' = memberships \cup
               {[_id |-> rmArgs[k].n, roomId |-> rmArgs[k].roomId,
                 userId |-> rmArgs[k].userId, role |-> rmArgs[k].role]}
          /\ rmPc' = [rmPc EXCEPT ![k] = "add_inc"]
          /\ UNCHANGED <<rmArgs, rmResult>>
  /\ UNCHANGED <<rooms, membersCount, rmStarted>>
  /\ UNCHANGED roomOthers

\* addMember: $inc membersCount by 1; return
AddMemberInc(k) ==
  /\ rmPc[k] = "add_inc"
  /\ membersCount' = [membersCount EXCEPT ![rmArgs[k].roomId] = @ + 1]
  /\ RoomCallEnds(k, rmArgs[k], "ok")
  /\ UNCHANGED <<rooms, memberships, rmStarted>>
  /\ UNCHANGED roomOthers

\* removeMember up to the permission checks
RemoveMemberCheck(k, roomId, userId, caller) ==
  /\ RoomCallStart(k)
  /\ rmStarted' = [rmStarted EXCEPT ![k] = @ + 1]
  /\ LET d == IF roomId \notin rooms THEN "NotFound"
              ELSE RemoveDecision(MembershipRole(roomId, caller),
                                  MembershipRole(roomId, userId), caller = userId)
         args == [NoCall EXCEPT !.op = "removeMember", !.roomId = roomId,
                                !.userId = userId, !.caller = caller,
                                !.n = Started + 1]
     IN IF d = "ok"
        THEN /\ rmPc' = [rmPc EXCEPT ![k] = "rm_delete"]
             /\ rmArgs' = [rmArgs EXCEPT ![k] =
                  [args EXCEPT !.targetId = FindMembership(roomId, userId)._id]]
             /\ rmResult' = [rmResult EXCEPT ![k] = "none"]
        ELSE RoomCallEnds(k, args, d)
  /\ UNCHANGED <<rooms, memberships, membersCount>>
  /\ UNCHANGED roomOthers

\* removeMember: membershipModel.findByIdAndDelete(targetMembership._id)
RemoveMemberDelete(k) ==
  /\ rmPc[k] = "rm_delete"
  /\ memberships' = {m \in memberships : m._id # rmArgs[k].targetId}
  /\ rmPc' = [rmPc EXCEPT ![k] = "rm_inc"]
  /\ UNCHANGED <<rooms, membersCount, rmArgs, rmResult, rmStarted>>
  /\ UNCHANGED roomOthers

\* removeMember: $inc membersCount by -1; return
RemoveMemberInc(k) ==
  /\ rmPc[k] = "rm_inc"
  /\ membersCount' = [membersCount EXCEPT ![rmArgs[k].roomId] = @ - 1]
  /\ RoomCallEnds(k, rmArgs[k], "ok")
  /\ UNCHANGED <<rooms, memberships, rmStarted>>
  /\ UNCHANGED roomOthers

\* updateMemberRole up to the own-role check
UpdateMemberRoleCheck(k, roomId, userId, role, caller) ==
  /\ RoomCallStart(k)
  /\ rmStarted' = [rmStarted EXCEPT ![k] = @ + 1]
  /\ LET d == RoleDecision(MembershipRole(roomId, caller),
                           MembershipRole(roomId, userId), caller = userId)
         args == [NoCall EXCEPT !.op = "updateMemberRole", !.roomId = roomId,
                                !.userId = userId, !.caller = caller, !.role = role,
                                !.n = Started + 1]
     IN IF d = "ok"
        THEN /\ rmPc' = [rmPc EXCEPT ![k] = "role_write"]
             /\ rmArgs' = [rmArgs EXCEPT ![k] =
                  [args EXCEPT !.targetId = FindMembership(roomId, userId)._id]]
             /\ rmResult' = [rmResult EXCEPT ![k] = "none"]
        ELSE RoomCallEnds(k, args, d)
  /\ UNCHANGED <<rooms, memberships, membersCount>>
  /\ UNCHANGED roomOthers

\* updateMemberRole: findByIdAndUpdate(targetMembership._id, {role}); the
\* response conversion throws when the document is gone
UpdateMemberRoleWrite(k) ==
  /\ rmPc[k] = "role_write"
  /\ memberships' = {IF m._id = rmArgs[k].targetId
                     THEN [m EXCEPT !.role = rmArgs[k].role] ELSE m : m \in memberships}
  /\ RoomCallEnds(k, rmArgs[k],
                  IF \E m \in memberships : m._id = rmArgs[k].targetId
                  THEN "ok" ELSE "TypeError")
  /\ UNCHANGED <<rooms, membersCount, rmStarted>>
  /\ UNCHANGED roomOthers

RoomInit ==
  /\ membersCount = [r \in RoomIds |-> IF r \in Rooms THEN 1 ELSE 0]
  /\ rmPc = [k \in RoomCalls |-> "idle"]
  /\ rmArgs = [k \in RoomCalls |-> NoCall]
  /\ rmResult = [k \in RoomCalls |-> "none"]
  /\ rmStarted = [k \in RoomCalls |-> 0]

\* ================================================================ ChatGateway
GwSockets == {"g1", "g2", "g3"}
GwUsers == {"u1", "u2"}
GwAddresses == {"ip2", "ip3"}

\* access tokens: [sub, iat, exp] in seconds
TokU1 == [sub |-> "u1", iat |-> 0, exp |-> AccessTtlSeconds]
TokU2 == [sub |-> "u2", iat |-> 0, exp |-> AccessTtlSeconds]
\* a token of u2 that SessionService has denylisted
TokU2Denied == [sub |-> "u2", iat |-> 1, exp |-> AccessTtlSeconds + 1]
\* a token of u2 whose exp lies in the past
TokExpired == [sub |-> "u2", iat |-> 0, exp |-> 0]
\* a token of u2 that was not signed with jwt.accessSecret
TokForged == [sub |-> "u2", iat |-> 2, exp |-> AccessTtlSeconds + 2]
AccessSigned == {TokU1, TokU2, TokU2Denied, TokExpired}

\* jwtService.verifyAsync(token, {secret: jwt.accessSecret})
JwtVerifyAccess(t) == t \in AccessSigned /\ (now \div 1000) < t.exp

\* client.handshake: address, headers.authorization as <<scheme, rest>> (<<>>
\* when the header is absent) and query.token (NoToken when absent)
Handshake(address, authorization, queryToken) ==
  [address |-> address, authorization |-> authorization, queryToken |-> queryToken]

NoHandshake == Handshake("", <<>>, NoToken)

\* the handshakes each socket may arrive with
Handshakes(s) ==
  IF s = "g1" THEN {Handshake("ip2", <<"Bearer ", TokU1>>, NoToken)}
  ELSE IF s = "g2" THEN {Handshake("ip2", <<>>, TokU1)}
  ELSE {Handshake("ip2", <<>>, NoToken),
        Handshake("ip2", <<"Basic ", TokU2>>, NoToken),
        Handshake("ip2", <<"Bearer ", TokU2Denied>>, NoToken),
        Handshake("ip2", <<"Bearer ", TokForged>>, NoToken),
        Handshake("ip2", <<"Bearer ", TokExpired>>, NoToken),
        Handshake("ip3", <<"Bearer ", TokU2>>, NoToken)}

\* extractTokenFromSocket(client)
ExtractTokenFromSocket(h) ==
  IF h.authorization # <<>> /\ h.authorization[1] = "Bearer "
  THEN h.authorization[2]
  ELSE h.queryToken

\* RateLimitService.checkWebSocketRateLimit(ip): identifier websocket:ip:<ip>
WebSocketIdentifier(ip) == "websocket:ip:" \o ip

CheckWebSocketRateLimit(ip) ==
  CheckRateLimit(rlZset, rlExpireAt, WebSocketIdentifier(ip),
                 WebSocketIPLimit, WebSocketIPWindowSeconds)

\* ---------------------------------------------------------- PresenceService
NoPresence == [status |-> "none", socketId |-> "", lastSeen |-> None]

\* setUserOnline(userId, socketId): hset user:presence userId {...}; the
\* expire that follows names the key user:presence:<userId>, which does not
\* exist, and changes nothing
SetUserOnline(hash, userId, socketId) ==
  [hash EXCEPT ![userId] = [status |-> "online", socketId |-> socketId, lastSeen |-> now]]

\* setUserOffline(userId)
SetUserOffline(hash, userId) ==
  [hash EXCEPT ![userId] = [status |-> "offline", socketId |-> "", lastSeen |-> now]]

\* getUserPresence(userId): the stored record, or null
GetUserPresence(userId) == presenceHash[userId]

\* isUserOnline(userId): presence?.status === 'online'
IsUserOnline(userId) == GetUserPresence(userId).status = "online"

\* getUserRooms(userId): the fields userId:<roomId> of the hash user:rooms
GetUserRooms(hash, userId) == {f[2] : f \in {g \in hash : g[1] = userId}}

\* addUserToRoom(userId, roomId) on the hashes room:users and user:rooms
AddRoomUser(hash, userId, roomId) == hash \cup {<<roomId, userId>>}
AddUserRoom(hash, userId, roomId) == hash \cup {<<userId, roomId>>}

\* removeUserFromRoom(userId, roomId)
RemoveRoomUser(hash, userId, roomId) == hash \ {<<roomId, userId>>}
RemoveUserRoom(hash, userId, roomId) == hash \ {<<userId, roomId>>}

\* cleanupUserData(userId): removeUserFromRoom for every room of the user
CleanupRoomUsers(hash, userId, userRooms) == {f \in hash : ~(f[2] = userId /\ f[1] \in userRooms)}
CleanupUserRooms(hash, userId, userRooms) == {f \in hash : ~(f[1] = userId /\ f[2] \in userRooms)}

\* ------------------------------------------------- CacheService (presence)
NoCached == [status |-> "none", socketId |-> "", lastSeen |-> None, expireAt |-> None]

\* cacheUserPresence / updateUserHeartbeat: set(presence:<userId>, presence, 30)
CacheUserPresence(cache, userId, status, socketId) ==
  [cache EXCEPT ![userId] = [status |-> status, socketId |-> socketId, lastSeen |-> now,
                             expireAt |-> now + PresenceTtlSeconds * 1000]]

\* CacheService.getUserPresence(userId): null once the TTL has elapsed
CachedUserPresence(userId) ==
  IF presenceCache[userId].expireAt # None /\ now < presenceCache[userId].expireAt
  THEN presenceCache[userId] ELSE NoCached

\* ------------------------------------------------------------ gateway state
NoInterval == [client |-> "", nextAt |-> None]

NoGwCall == [op |-> "none", socket |-> "", roomId |-> "", result |-> "", isTyping |-> FALSE]

GwCall(op, s, roomId, result, isTyping) ==
  [op |-> op, socket |-> s, roomId |-> roomId, result |-> result, isTyping |-> isTyping]

\* server.to(`room:${roomId}`).emit(event, {userId, status | isTyping, roomId})
GwEvent(event, roomId, userId, status) ==
  [event |-> event, roomId |-> roomId, userId |-> userId, status |-> status]

\* the isTyping flag of a typing event
TypingStatus(isTyping) == IF isTyping THEN "true" ELSE "false"

\* the user id of client.data.user: payload.sub
SocketUserId(s) == gwSock[s].user.sub

\* startUserHeartbeat(userId, client): stopUserHeartbeat, then setInterval(20 s)
StartUserHeartbeat(intervals, userId, client) ==
  [intervals EXCEPT ![userId] = [client |-> client, nextAt |-> now + HeartbeatMs]]

\* stopUserHeartbeat(userId): clearInterval and delete the map entry
StopUserHeartbeat(intervals, userId) == [intervals EXCEPT ![userId] = NoInterval]

\* handleConnection up to verifyAsync: which check, if any, turns the socket away
ConnectionDecisionNoDenylist(h) ==
  IF ~CheckWebSocketRateLimit(h.address).allowed THEN "rate_limited"
  ELSE IF ExtractTokenFromSocket(h) = NoToken THEN "no_token"
  ELSE IF ~JwtVerifyAccess(ExtractTokenFromSocket(h)) THEN "invalid_token"
  ELSE "ok"

ConnectionDecision(h) ==
  IF ~CheckWebSocketRateLimit(h.address).allowed THEN "rate_limited"
  ELSE IF ExtractTokenFromSocket(h) = NoToken THEN "no_token"
  ELSE IF SessionIsRefreshTokenBlacklisted(ExtractTokenFromSocket(h)) THEN "blacklisted"
  ELSE IF ~JwtVerifyAccess(ExtractTokenFromSocket(h)) THEN "invalid_token"
  ELSE "ok"

\* handleConnection(client)
HandleConnection(s) ==
  /\ gwSock[s].state = "new"
  /\ \E h \in Handshakes(s) :
       LET rl == CheckWebSocketRateLimit(h.address)
           d == ConnectionDecision(h)
           payload == ExtractTokenFromSocket(h)
           userId == payload.sub
           userRooms == GetUserRooms(userRoomsHash, userId)
       IN /\ rlZset' = rl.zset
          /\ rlExpireAt' = rl.expireAt
          /\ gwLast' = GwCall("connect", s, "", d, FALSE)
          /\ IF d = "ok"
             THEN /\ gwSock' = [gwSock EXCEPT ![s] =
                                  [state |-> "open", user |-> payload, handshake |-> h]]
                  /\ presenceHash' = SetUserOnline(presenceHash, userId, s)
                  /\ presenceCache' = CacheUserPresence(presenceCache, userId, "online", s)
                  /\ heartbeatIntervals' = StartUserHeartbeat(heartbeatIntervals, userId, s)
                  /\ gwChannels' = [gwChannels EXCEPT ![s] = userRooms]
                  /\ gwEmits' = {GwEvent("presence", r, userId, "online") : r \in userRooms}
             ELSE \* client.disconnect(); client.data.user stays unset
                  /\ gwSock' = [gwSock EXCEPT ![s] =
                                  [state |-> "rejected", user |-> NoToken, handshake |-> h]]
                  /\ gwEmits' = {}
                  /\ UNCHANGED <<presenceHash, presenceCache, heartbeatIntervals, gwChannels>>
  /\ UNCHANGED <<roomUsersHash, userRoomsHash, typingUsers, typingTimers>>
  /\ UNCHANGED <<rlPc, rlId, rlNow, rlCount, rlResult, rlAdmitted>>
  /\ UNCHANGED <<now, authVars, pipeVars, roomVars, msgVars, wsVars, fnVars, rsVars, stepVars>>

\* handleDisconnect(client): runs for every socket that closes, also for one
\* that handleConnection disconnected
HandleDisconnect(s) ==
  /\ gwSock[s].state \in {"open", "rejected"}
  /\ gwSock' = [gwSock EXCEPT ![s].state = "closed"]
  \* a closed socket has left every channel
  /\ gwChannels' = [gwChannels EXCEPT ![s] = {}]
  /\ IF gwSock[s].user = NoToken
     THEN /\ gwLast' = GwCall("disconnect", s, "", "no_user", FALSE)
          /\ gwEmits' = {}
          /\ UNCHANGED <<presenceHash, presenceCache, heartbeatIntervals,
                         roomUsersHash, userRoomsHash>>
     ELSE LET userId == SocketUserId(s)
              cleaned == GetUserRooms(userRoomsHash, userId)
              roomsAfter == CleanupUserRooms(userRoomsHash, userId, cleaned)
              \* const userRooms = await this.presenceService.getUserRooms(userId),
              \* read after cleanupUserData
              userRooms == GetUserRooms(roomsAfter, userId)
          IN /\ heartbeatIntervals' = StopUserHeartbeat(heartbeatIntervals, userId)
             /\ presenceCache' = CacheUserPresence(presenceCache, userId, "offline", "")
             /\ roomUsersHash' = CleanupRoomUsers(roomUsersHash, userId, cleaned)
             /\ userRoomsHash' = roomsAfter
             /\ presenceHash' = SetUserOffline(presenceHash, userId)
             /\ gwEmits' = {GwEvent("presence", r, userId, "offline") : r \in userRooms}
             /\ gwLast' = GwCall("disconnect", s, "", "ok", FALSE)
  /\ UNCHANGED <<typingUsers, typingTimers>>
  /\ UNCHANGED <<now, rlVars, authVars, pipeVars, roomVars, msgVars, wsVars, fnVars, rsVars, stepVars>>

\* WebSocketAuthGuard and WebSocketRoomGuard in front of an event handler
GuardDecision(s, roomId) ==
  IF ExtractTokenFromSocket(gwSock[s].handshake) = NoToken THEN "token_required"
  ELSE IF ~JwtVerifyAccess(ExtractTokenFromSocket(gwSock[s].handshake)) THEN "invalid_token"
  ELSE IF ~IsRoomMember(roomId, ExtractTokenFromSocket(gwSock[s].handshake).sub)
  THEN "not_member"
  ELSE "ok"

\* handleJoinRoom(data, client)
HandleJoinRoom(s, roomId) ==
  /\ gwSock[s].state = "open"
  /\ LET d == GuardDecision(s, roomId)
         userId == SocketUserId(s)
     IN /\ gwLast' = GwCall("join_room", s, roomId, d, FALSE)
        /\ IF d = "ok"
           THEN /\ gwChannels' = [gwChannels EXCEPT ![s] = @ \cup {roomId}]
                /\ roomUsersHash' = AddRoomUser(roomUsersHash, userId, roomId)
                /\ userRoomsHash' = AddUserRoom(userRoomsHash, userId, roomId)
                /\ gwEmits' = {GwEvent("presence", roomId, userId, "online")}
           ELSE /\ gwEmits' = {}
                /\ UNCHANGED <<gwChannels, roomUsersHash, userRoomsHash>>
  /\ UNCHANGED <<gwSock, presenceHash, presenceCache, heartbeatIntervals,
                 typingUsers, typingTimers>>
  /\ UNCHANGED <<now, rlVars, authVars, pipeVars, roomVars, msgVars, wsVars, fnVars, rsVars, stepVars>>

\* handleLeaveRoom(data, client)
HandleLeaveRoom(s, roomId) ==
  /\ gwSock[s].state = "open"
  /\ LET d == GuardDecision(s, roomId)
         userId == SocketUserId(s)
     IN /\ gwLast' = GwCall("leave_room", s, roomId, d, FALSE)
        /\ IF d = "ok"
           THEN /\ gwChannels' = [gwChannels EXCEPT ![s] = @ \ {roomId}]
                /\ roomUsersHash' = RemoveRoomUser(roomUsersHash, userId, roomId)
                /\ userRoomsHash' = RemoveUserRoom(userRoomsHash, userId, roomId)
                /\ gwEmits' = {GwEvent("presence", roomId, userId, "offline")}
           ELSE /\ gwEmits' = {}
                /\ UNCHANGED <<gwChannels, roomUsersHash, userRoomsHash>>
  /\ UNCHANGED <<gwSock, presenceHash, presenceCache, heartbeatIntervals,
                 typingUsers, typingTimers>>
  /\ UNCHANGED <<now, rlVars, authVars, pipeVars, roomVars, msgVars, wsVars, fnVars, rsVars, stepVars>>

\* the setInterval callback of startUserHeartbeat; storeOk is whether
\* cacheService.updateUserHeartbeat resolves
Heartbeat(userId, storeOk) ==
  /\ heartbeatIntervals[userId] # NoInterval
  /\ now >= heartbeatIntervals[userId].nextAt
  /\ LET client == heartbeatIntervals[userId].client
     IN IF gwSock[client].state # "open" \/ ~storeOk
        THEN \* !client.connected, or the catch block: stopUserHeartbeat(userId)
             /\ heartbeatIntervals' = StopUserHeartbeat(heartbeatIntervals, userId)
             /\ gwEmits' = {}
             /\ gwLast' = GwCall("heartbeat", client, "", "stopped", FALSE)
             /\ UNCHANGED <<presenceHash, presenceCache>>
        ELSE /\ presenceCache' = CacheUserPresence(presenceCache, userId, "online", client)
             /\ presenceHash' = SetUserOnline(presenceHash, userId, client)
             /\ heartbeatIntervals' =
                  [heartbeatIntervals EXCEPT ![userId].nextAt = @ + HeartbeatMs]
             /\ gwEmits' = {GwEvent("ping", "", userId, client)}
             /\ gwLast' = GwCall("heartbeat", client, "", "ok", FALSE)
  /\ UNCHANGED <<gwSock, gwChannels, roomUsersHash, userRoomsHash, typingUsers, typingTimers>>
  /\ UNCHANGED <<now, rlVars, authVars, pipeVars, roomVars, msgVars, wsVars, fnVars, rsVars, stepVars>>

\* handleTyping(data, client)
HandleTyping(s, roomId, isTyping) ==
  /\ gwSock[s].state = "open"
  /\ Len(typingTimers) < MaxTimers
  /\ LET d == GuardDecision(s, roomId)
         userId == SocketUserId(s)
     IN /\ gwLast' = GwCall("typing", s, roomId, d, isTyping)
        /\ IF d # "ok"
           THEN /\ gwEmits' = {}
                /\ UNCHANGED <<typingUsers, typingTimers>>
           ELSE /\ gwEmits' = {GwEvent("typing", roomId, userId, TypingStatus(isTyping))}
                /\ IF isTyping
                   THEN /\ typingUsers' = [typingUsers EXCEPT ![roomId] = @ \cup {userId}]
                        \* setTimeout(..., 3000): the handle is not kept
                        /\ typingTimers' = Append(typingTimers,
                             [roomId |-> roomId, userId |-> userId,
                              fireAt |-> now + TypingTimeoutMs])
                   ELSE /\ typingUsers' = [typingUsers EXCEPT ![roomId] = @ \ {userId}]
                        /\ UNCHANGED typingTimers
  /\ UNCHANGED <<gwSock, gwChannels, presenceHash, presenceCache, roomUsersHash,
                 userRoomsHash, heartbeatIntervals>>
  /\ UNCHANGED <<now, rlVars, authVars, pipeVars, roomVars, msgVars, wsVars, fnVars, rsVars, stepVars>>

\* the setTimeout callback of handleTyping; timers fire in the order they were set
TypingTimeout ==
  /\ typingTimers # <<>>
  /\ now >= Head(typingTimers).fireAt
  /\ LET t == Head(typingTimers)
     IN /\ typingUsers' = [typingUsers EXCEPT ![t.roomId] = @ \ {t.userId}]
        /\ gwEmits' = {GwEvent("typing", t.roomId, t.userId, TypingStatus(FALSE))}
        /\ gwLast' = GwCall("typing_timeout", "", t.roomId, t.userId, FALSE)
  /\ typingTimers' = Tail(typingTimers)
  /\ UNCHANGED <<gwSock, gwChannels, presenceHash, presenceCache, roomUsersHash,
                 userRoomsHash, heartbeatIntervals>>
  /\ UNCHANGED <<now, rlVars, authVars, pipeVars, roomVars, msgVars, wsVars, fnVars, rsVars, stepVars>>

\* the instants at which a pending timer is due
TimerInstants ==
  {heartbeatIntervals[u].nextAt : u \in {v \in GwUsers : heartbeatIntervals[v] # NoInterval}}
    \cup {typingTimers[i].fireAt : i \in DOMAIN typingTimers}

\* the clock moves on to the next due timer, at most GwTickMs ahead; a timer
\* that is due fires before the clock moves again
GwTick ==
  /\ now < MaxGwNow
  /\ \A t \in TimerInstants : t > now
  /\ LET ahead == {t \in TimerInstants : t < now + GwTickMs}
         next == IF ahead = {} THEN now + GwTickMs
                 ELSE CHOOSE t \in ahead : \A x \in ahead : t <= x
     IN /\ now' = next
        \* the store drops the presence keys whose TTL elapses meanwhile
        /\ presenceCache' = [u \in GwUsers |->
             IF presenceCache[u].expireAt # None /\ next >= presenceCache[u].expireAt
             THEN NoCached ELSE presenceCache[u]]
  /\ gwLast' = NoGwCall
  /\ gwEmits' = {}
  /\ UNCHANGED <<gwSock, gwChannels, presenceHash, roomUsersHash, userRoomsHash,
                 heartbeatIntervals, typingUsers, typingTimers>>
  /\ UNCHANGED <<rlVars, authVars, pipeVars, roomVars, msgVars, wsVars, fnVars, rsVars, stepVars>>

GwInit ==
  /\ gwSock = [s \in GwSockets |-> [state |-> "new", user |-> NoToken, handshake |-> NoHandshake]]
  /\ gwChannels = [s \in GwSockets |-> {}]
  /\ presenceHash = [u \in GwUsers |-> NoPresence]
  /\ presenceCache = [u \in GwUsers |-> NoCached]
  /\ roomUsersHash = {}
  /\ userRoomsHash = {}
  /\ heartbeatIntervals = [u \in GwUsers |-> NoInterval]
  /\ typingUsers = [r \in RoomIds |-> {}]
  /\ typingTimers = <<>>
  /\ gwEmits = {}
  /\ gwLast = NoGwCall

\* ===================================== send_message, one await at a time
\* two send_message events emitted by socket s1 to room r1, A before B
WsSends == {"A", "B"}
WsSocket == "s1"
WsRoom == "r1"
WsBody == <<"hello">>

\* the events reach the server in the order the socket emitted them
WsArrived(m) == m = "A" \/ wsPc["A"] # "unsent"

\* the handler's catch block: client.emit('error', ...)
WsFail(m) ==
  /\ wsPc' = [wsPc EXCEPT ![m] = "error"]
  /\ sendErrors' = [sendErrors EXCEPT ![WsSocket] = TRUE]

\* WebSocketAuthGuard and WebSocketRoomGuard, each awaiting once
WsGuards(m) ==
  /\ wsPc[m] = "unsent"
  /\ WsArrived(m)
  /\ IF IsRoomMember(WsRoom, SocketUser[WsSocket])
     THEN wsPc' = [wsPc EXCEPT ![m] = "userLimit"] /\ UNCHANGED sendErrors
     ELSE WsFail(m)
  /\ UNCHANGED <<rooms, memberships, msgDocs, recentCache, nextMsg, inboundLog,
                 moderatedLog, persistedLog, prodSeq, inOffset, modOffset, redelivered,
                 deliveries, inTasks, modTasks, sendPending, roomEvents,
                 inboundDone, moderatedDone>>
  /\ UNCHANGED <<now, rlVars, authVars, roomVars, msgVars, gwVars, wsDoc, fnVars, rsVars, stepVars>>

\* await this.rateLimitService.checkMessageRateLimit(userId)
WsUserLimit(m) ==
  /\ wsPc[m] = "userLimit"
  /\ LET rl == CheckRateLimit(rlZset, rlExpireAt, "message:user:" \o SocketUser[WsSocket],
                              MessageUserLimit, MessageUserWindowSeconds)
     IN /\ rlZset' = rl.zset
        /\ rlExpireAt' = rl.expireAt
        /\ IF rl.allowed
           THEN wsPc' = [wsPc EXCEPT ![m] = "ipLimit"] /\ UNCHANGED sendErrors
           ELSE WsFail(m)
  /\ UNCHANGED <<rlPc, rlId, rlNow, rlCount, rlResult, rlAdmitted>>
  /\ UNCHANGED <<rooms, memberships, msgDocs, recentCache, nextMsg, inboundLog,
                 moderatedLog, persistedLog, prodSeq, inOffset, modOffset, redelivered,
                 deliveries, inTasks, modTasks, sendPending, roomEvents,
                 inboundDone, moderatedDone>>
  /\ UNCHANGED <<now, authVars, roomVars, msgVars, gwVars, wsDoc, fnVars, rsVars, stepVars>>

\* await this.rateLimitService.checkIPRateLimit(clientIP)
WsIPLimit(m) ==
  /\ wsPc[m] = "ipLimit"
  /\ LET rl == CheckRateLimit(rlZset, rlExpireAt, "message:ip:" \o SocketIP[WsSocket],
                              MessageIPLimit, MessageIPWindowSeconds)
     IN /\ rlZset' = rl.zset
        /\ rlExpireAt' = rl.expireAt
        /\ IF rl.allowed
           THEN wsPc' = [wsPc EXCEPT ![m] = "findRoom"] /\ UNCHANGED sendErrors
           ELSE WsFail(m)
  /\ UNCHANGED <<rlPc, rlId, rlNow, rlCount, rlResult, rlAdmitted>>
  /\ UNCHANGED <<rooms, memberships, msgDocs, recentCache, nextMsg, inboundLog,
                 moderatedLog, persistedLog, prodSeq, inOffset, modOffset, redelivered,
                 deliveries, inTasks, modTasks, sendPending, roomEvents,
                 inboundDone, moderatedDone>>
  /\ UNCHANGED <<now, authVars, roomVars, msgVars, gwVars, wsDoc, fnVars, rsVars, stepVars>>

\* await this.roomModel.findById(roomId).exec()
WsFindRoom(m) ==
  /\ wsPc[m] = "findRoom"
  /\ IF WsRoom \in rooms
     THEN wsPc' = [wsPc EXCEPT ![m] = "isMember"] /\ UNCHANGED sendErrors
     ELSE WsFail(m)
  /\ UNCHANGED <<rooms, memberships, msgDocs, recentCache, nextMsg, inboundLog,
                 moderatedLog, persistedLog, prodSeq, inOffset, modOffset, redelivered,
                 deliveries, inTasks, modTasks, sendPending, roomEvents,
                 inboundDone, moderatedDone>>
  /\ UNCHANGED <<now, rlVars, authVars, roomVars, msgVars, gwVars, wsDoc, fnVars, rsVars, stepVars>>

\* await this.isRoomMember(roomId, userId)
WsIsMember(m) ==
  /\ wsPc[m] = "isMember"
  /\ IF IsRoomMember(WsRoom, SocketUser[WsSocket])
     THEN wsPc' = [wsPc EXCEPT ![m] = "save"] /\ UNCHANGED sendErrors
     ELSE WsFail(m)
  /\ UNCHANGED <<rooms, memberships, msgDocs, recentCache, nextMsg, inboundLog,
                 moderatedLog, persistedLog, prodSeq, inOffset, modOffset, redelivered,
                 deliveries, inTasks, modTasks, sendPending, roomEvents,
                 inboundDone, moderatedDone>>
  /\ UNCHANGED <<now, rlVars, authVars, roomVars, msgVars, gwVars, wsDoc, fnVars, rsVars, stepVars>>

\* const savedMessage = await message.save(): the insert, createdAt = now
WsSave(m) ==
  /\ wsPc[m] = "save"
  /\ LET doc == NewMessageDoc(MsgId(nextMsg), WsRoom, SocketUser[WsSocket],
                              SanitizeMessageBody(WsBody))
     IN /\ msgDocs' = msgDocs \cup {doc}
        /\ wsDoc' = [wsDoc EXCEPT ![m] = doc]
  /\ nextMsg' = nextMsg + 1
  /\ wsPc' = [wsPc EXCEPT ![m] = "cache"]
  /\ UNCHANGED <<rooms, memberships, recentCache, inboundLog,
                 moderatedLog, persistedLog, prodSeq, inOffset, modOffset, redelivered,
                 deliveries, inTasks, modTasks, sendPending, sendErrors, roomEvents,
                 inboundDone, moderatedDone>>
  /\ UNCHANGED <<now, rlVars, authVars, roomVars, msgVars, gwVars, fnVars, rsVars, stepVars>>

\* await this.cacheRecentMessages(roomId, messageResponse)
WsCache(m) ==
  /\ wsPc[m] = "cache"
  /\ recentCache' = CacheRecentMessages(recentCache, WsRoom, ToMessageResponse(wsDoc[m]))
  /\ wsPc' = [wsPc EXCEPT ![m] = "produce"]
  /\ UNCHANGED <<rooms, memberships, msgDocs, nextMsg, inboundLog,
                 moderatedLog, persistedLog, prodSeq, inOffset, modOffset, redelivered,
                 deliveries, inTasks, modTasks, sendPending, sendErrors, roomEvents,
                 inboundDone, moderatedDone>>
  /\ UNCHANGED <<now, rlVars, authVars, roomVars, msgVars, gwVars, wsDoc, fnVars, rsVars, stepVars>>

\* await this.kafkaService.produceInboundMessage(...), errors caught
WsProduce(m, sendOk) ==
  /\ wsPc[m] = "produce"
  /\ inboundLog' = Produce(inboundLog, "messages.inbound",
                           InboundPayload(wsDoc[m], WsRoom, SocketUser[WsSocket], WsBody),
                           sendOk)
  /\ prodSeq' = IF inboundLog' # inboundLog THEN prodSeq + 1 ELSE prodSeq
  /\ wsPc' = [wsPc EXCEPT ![m] = "emit"]
  /\ UNCHANGED <<rooms, memberships, msgDocs, recentCache, nextMsg,
                 moderatedLog, persistedLog, inOffset, modOffset, redelivered,
                 deliveries, inTasks, modTasks, sendPending, sendErrors, roomEvents,
                 inboundDone, moderatedDone>>
  /\ UNCHANGED <<now, rlVars, authVars, roomVars, msgVars, gwVars, wsDoc, fnVars, rsVars, stepVars>>

\* this.server.to(`room:${roomId}`).emit('message_created', {message, roomId})
WsEmit(m) ==
  /\ wsPc[m] = "emit"
  /\ roomEvents' = [roomEvents EXCEPT ![WsRoom] =
        Append(@, RoomEvent("message_created", ToMessageResponse(wsDoc[m])))]
  /\ wsPc' = [wsPc EXCEPT ![m] = "done"]
  /\ UNCHANGED <<rooms, memberships, msgDocs, recentCache, nextMsg, inboundLog,
                 moderatedLog, persistedLog, prodSeq, inOffset, modOffset, redelivered,
                 deliveries, inTasks, modTasks, sendPending, sendErrors,
                 inboundDone, moderatedDone>>
  /\ UNCHANGED <<now, rlVars, authVars, roomVars, msgVars, gwVars, wsDoc, fnVars, rsVars, stepVars>>

WsInit ==
  /\ wsPc = [m \in WsSends |-> "unsent"]
  /\ wsDoc = [m \in WsSends |-> NoMsg]

\* ============================================================ SessionService
SessUsers == {"u1", "u2"}
\* access tokens presented to validateAccessToken: [sub, iat, exp] in seconds
SessTokens == {[sub |-> u, iat |-> i, exp |-> i + AccessTtlSeconds] :
                 u \in SessUsers, i \in 1..MaxIat}
\* a string jwtService.decode cannot decode
Undecodable == [sub |-> "", iat |-> None, exp |-> None]

\* CacheService.get(key): the parsed value, or null (None)
CacheGet(key) ==
  IF \E e \in RedisLive : e.key = key
  THEN (CHOOSE e \in RedisLive : e.key = key).value
  ELSE None

\* blacklistRefreshToken(token): ttl = exp - floor(now / 1000), written if ttl > 0
SessionBlacklistTtl(t) == t.exp - (now \div 1000)

\* the store after blacklistRefreshToken(token)
SessionDenylistStore(t) ==
  IF t = Undecodable THEN RedisLive
  ELSE IF SessionBlacklistTtl(t) > 0 THEN BlacklistToken(t, SessionBlacklistTtl(t))
  ELSE RedisLive

\* blacklistAllUserTokens(userId): set(blacklist:user:<userId>, {blacklistedAt}, 7 days)
BlacklistAllUserTokens(userId) ==
  RedisSet(<<"blacklist:user:", userId>>, now, UserCutoffTtlSeconds)

\* isUserBlacklisted(userId, tokenIssuedAt)
IsUserBlacklisted(userId, tokenIssuedAt) ==
  LET blacklistData == CacheGet(<<"blacklist:user:", userId>>)
  IN IF blacklistData = None THEN FALSE
     ELSE tokenIssuedAt < blacklistData

\* validateAccessToken(token)
ValidateAccessToken(t) ==
  IF t = Undecodable \/ t.sub = "" \/ t.iat = 0 THEN FALSE
  ELSE ~IsUserBlacklisted(t.sub, t.iat * 1000)

\* a call of blacklistRefreshToken
SessBlacklistToken(t) ==
  /\ redisStr' = SessionDenylistStore(t)
  /\ redisStr' # redisStr
  /\ vatToken' = Undecodable
  /\ vatResult' = FALSE
  /\ UNCHANGED <<issued, rfPc, rfTok, rfNew, rfResult, rfAfterLogout, rfStarted,
                 rfOk, denylisted, loggedOut>>
  /\ UNCHANGED <<now, rlVars, pipeVars, roomVars, msgVars, gwVars, wsVars,
                 sanInput, sanFn, sanOnce, sanTwice, rsVars, stepVars>>

\* a call of blacklistAllUserTokens
SessBlacklistUser(userId) ==
  /\ redisStr' = BlacklistAllUserTokens(userId)
  /\ redisStr' # redisStr
  /\ vatToken' = Undecodable
  /\ vatResult' = FALSE
  /\ UNCHANGED <<issued, rfPc, rfTok, rfNew, rfResult, rfAfterLogout, rfStarted,
                 rfOk, denylisted, loggedOut>>
  /\ UNCHANGED <<now, rlVars, pipeVars, roomVars, msgVars, gwVars, wsVars,
                 sanInput, sanFn, sanOnce, sanTwice, rsVars, stepVars>>

\* a call of validateAccessToken
SessValidate(t) ==
  /\ vatToken' = t
  /\ vatResult' = ValidateAccessToken(t)
  /\ UNCHANGED <<authVars, now, rlVars, pipeVars, roomVars, msgVars, gwVars, wsVars,
                 sanInput, sanFn, sanOnce, sanTwice, rsVars, stepVars>>

SessInit ==
  /\ vatToken = Undecodable
  /\ vatResult = FALSE

\* ========================================================= RateLimitService
\* the keyed-store operation that fails during a call, if any
StoreFailures == {"none", "zremrangebyscore", "zcard", "zrange", "zadd", "expire"}

\* Math.floor(a / b) for a >= 0 and b > 0: the rounding checkRateLimit does not use
FloorDiv(a, b) == a \div b

\* Math.ceil(a / b) for b > 0
CeilDiv(a, b) == 0 - ((0 - a) \div b)

Max(a, b) == IF a >= b THEN a ELSE b

NoLimitResult == [identifier |-> "", allowed |-> FALSE, remaining |-> None,
                  resetTime |-> None, retryAfter |-> None, failed |-> FALSE,
                  threw |-> FALSE, at |-> None]

\* whether CacheService.checkRateLimit reaches the failing operation: zrange
\* is called on the denied path, zadd and expire on the admitted path
FailureHit(inner, failAt) ==
  \/ failAt \in {"zremrangebyscore", "zcard"}
  \/ failAt = "zrange" /\ ~inner.allowed
  \/ failAt \in {"zadd", "expire"} /\ inner.allowed

\* the store a call leaves behind when failAt fails: the operations before it
\* have run
StoreAfter(inner, id, failAt) ==
  LET live == ZLive(id)
      evicted == Zremrangebyscore(live, 0, now - RLWindowSeconds * 1000)
      ttl == IF live = {} \/ evicted = {} THEN None ELSE rlExpireAt[id]
  IN IF ~FailureHit(inner, failAt)
     THEN [zset |-> inner.zset, expireAt |-> inner.expireAt]
     ELSE IF failAt = "zremrangebyscore"
     THEN [zset |-> rlZset, expireAt |-> rlExpireAt]
     ELSE IF failAt \in {"zcard", "zrange", "zadd"}
     THEN [zset |-> [rlZset EXCEPT ![id] = evicted],
           expireAt |-> [rlExpireAt EXCEPT ![id] = ttl]]
     ELSE \* expire failed: the member is added, the TTL is not renewed
          [zset |-> inner.zset,
           expireAt |-> [rlExpireAt EXCEPT ![id] = IF evicted = {} THEN None ELSE ttl]]

\* the catch block of checkRateLimit: allow the request
RateLimitOnErrorRethrow(id, limit, windowSeconds, at) ==
  [identifier |-> id, allowed |-> FALSE, remaining |-> None, resetTime |-> None,
   retryAfter |-> None, failed |-> TRUE, threw |-> TRUE, at |-> at]

RateLimitOnError(id, limit, windowSeconds, at) ==
  [identifier |-> id, allowed |-> TRUE, remaining |-> limit - 1,
   resetTime |-> at + windowSeconds * 1000, retryAfter |-> None,
   failed |-> TRUE, threw |-> FALSE, at |-> at]

\* the denied branch: retryAfter = max(0, ceil((resetTime - Date.now()) / 1000)),
\* Date.now() read after the store calls have returned
RateLimitDenied(id, inner, at) ==
  [identifier |-> id, allowed |-> FALSE, remaining |-> inner.remaining,
   resetTime |-> inner.resetTime,
   retryAfter |-> Max(0, CeilDiv(inner.resetTime - at, 1000)),
   failed |-> FALSE, threw |-> FALSE, at |-> at]

RateLimitAllowed(id, inner, at) ==
  [identifier |-> id, allowed |-> TRUE, remaining |-> inner.remaining,
   resetTime |-> inner.resetTime, retryAfter |-> None,
   failed |-> FALSE, threw |-> FALSE, at |-> at]

\* RateLimitService.checkRateLimit(identifier, limit, windowSeconds) by a
\* caller that is alone; elapsed is the time the store calls take
RateLimitCheck(id, failAt, elapsed) ==
  /\ now + elapsed <= MaxNow
  /\ LET inner == CheckRateLimit(rlZset, rlExpireAt, id, RLLimit, RLWindowSeconds)
         after == StoreAfter(inner, id, failAt)
     IN /\ rlZset' = after.zset
        /\ rlExpireAt' = after.expireAt
        /\ rsResult' =
             IF FailureHit(inner, failAt)
             THEN RateLimitOnError(id, RLLimit, RLWindowSeconds, now + elapsed)
             ELSE IF ~inner.allowed THEN RateLimitDenied(id, inner, now + elapsed)
             ELSE RateLimitAllowed(id, inner, now + elapsed)
  /\ now' = now + elapsed
  /\ redisStr' = {e \in redisStr : e.expireAt = None \/ now' < e.expireAt}
  /\ UNCHANGED <<rlPc, rlId, rlNow, rlCount, rlResult, rlAdmitted>>
  /\ UNCHANGED <<issued, rfPc, rfTok, rfNew, rfResult, rfAfterLogout, rfStarted,
                 rfOk, denylisted, loggedOut>>
  /\ UNCHANGED <<pipeVars, roomVars, msgVars, gwVars, wsVars, fnVars, stepVars>>

RsInit == rsResult = NoLimitResult

\* ===================================== SanitizationService, on character lists
\* a string is the sequence of its characters; the inputs are built from up
\* to MaxParts of these fragments
SanFragments == {<<"&">>, <<"<">>, <<"/">>, <<" ">>, <<"a">>,
                 <<"d", "a">>, <<"t", "a", ":">>, <<"d", "a", "t", "a", ":">>}

RECURSIVE SanConcat(_)
SanConcat(parts) ==
  IF parts = <<>> THEN <<>> ELSE Head(parts) \o SanConcat(Tail(parts))

SanInputs ==
  {SanConcat(p) : p \in UNION {[1..n -> SanFragments] : n \in 1..MaxParts}}

\* escapeHtml(text): text.replace(/[&<>"'/]/g, (s) => map[s])
EscapeChar(c) ==
  IF c = "&" THEN <<"&", "a", "m", "p", ";">>
  ELSE IF c = "<" THEN <<"&", "l", "t", ";">>
  ELSE IF c = ">" THEN <<"&", "g", "t", ";">>
  ELSE IF c = "\"" THEN <<"&", "q", "u", "o", "t", ";">>
  ELSE IF c = "'" THEN <<"&", "#", "3", "9", ";">>
  ELSE IF c = "/" THEN <<"&", "#", "x", "2", "F", ";">>
  ELSE <<c>>

RECURSIVE EscapeHtml(_)
EscapeHtml(text) ==
  IF text = <<>> THEN <<>> ELSE EscapeChar(Head(text)) \o EscapeHtml(Tail(text))

\* whether pattern occurs in text at position i
MatchesAt(text, pattern, i) ==
  /\ i + Len(pattern) - 1 <= Len(text)
  /\ \A k \in 1..Len(pattern) : text[i + k - 1] = pattern[k]

\* text.replace(/pattern/g, ''): one scan from the left, the scan resumes
\* behind each match and does not look at the result again
RECURSIVE RemoveFrom(_, _, _)
RemoveFrom(text, pattern, i) ==
  IF i > Len(text) THEN <<>>
  ELSE IF MatchesAt(text, pattern, i) THEN RemoveFrom(text, pattern, i + Len(pattern))
  ELSE <<text[i]>> \o RemoveFrom(text, pattern, i + 1)

RemoveAll(text, pattern) == RemoveFrom(text, pattern, 1)

\* text.replace(/<[^>]*>/g, ''): a '<' with a later '>' is removed up to the
\* first such '>'
RECURSIVE RemoveTagsFrom(_, _)
RemoveTagsFrom(text, i) ==
  IF i > Len(text) THEN <<>>
  ELSE IF text[i] = "<" /\ \E j \in (i + 1)..Len(text) : text[j] = ">"
  THEN RemoveTagsFrom(text, 1 + CHOOSE j \in (i + 1)..Len(text) :
                               text[j] = ">" /\ \A k \in (i + 1)..(j - 1) : text[k] # ">")
  ELSE <<text[i]>> \o RemoveTagsFrom(text, i + 1)

RemoveTags(text) == RemoveTagsFrom(text, 1)

\* String.prototype.trim()
RECURSIVE TrimLeft(_)
TrimLeft(text) ==
  IF text # <<>> /\ Head(text) = " " THEN TrimLeft(Tail(text)) ELSE text

RECURSIVE TrimRight(_)
TrimRight(text) ==
  IF text # <<>> /\ text[Len(text)] = " "
  THEN TrimRight(SubSeq(text, 1, Len(text) - 1)) ELSE text

Trim(text) == TrimRight(TrimLeft(text))

\* this.purify.sanitize(escaped) with no tag allowed: DOMPurify hands a string
\* without '<' back as it is; escapeHtml leaves no '<' in its result
PurifySanitize(text) ==
  IF \A i \in DOMAIN text : text[i] # "<" THEN text ELSE RemoveTags(text)

\* sanitizeText(input)
SanitizeText(input) ==
  IF input = <<>> THEN <<>>
  ELSE Trim(RemoveAll(RemoveAll(RemoveAll(RemoveTags(PurifySanitize(EscapeHtml(input))),
         <<"j", "a", "v", "a", "s", "c", "r", "i", "p", "t", ":">>),
         <<"d", "a", "t", "a", ":">>),
         <<"v", "b", "s", "c", "r", "i", "p", "t", ":">>))

\* String.prototype.substring(0, n)
Substring0(text, n) == IF Len(text) > n THEN SubSeq(text, 1, n) ELSE text

\* sanitizeRoomName(name)
SanitizeRoomName(name) ==
  IF name = <<>> THEN <<>> ELSE Substring0(SanitizeText(name), RoomNameMax)

SanFns == {"sanitizeText", "sanitizeRoomName"}

SanApply(fn, x) == IF fn = "sanitizeText" THEN SanitizeText(x) ELSE SanitizeRoomName(x)

\* fn(x) and fn(fn(x)) for the input at hand
Sanitize(fn) ==
  /\ sanFn = "none"
  /\ sanFn' = fn
  /\ sanOnce' = SanApply(fn, sanInput)
  /\ sanTwice' = SanApply(fn, SanApply(fn, sanInput))
  /\ UNCHANGED <<sanInput, vatToken, vatResult>>
  /\ UNCHANGED <<now, rlVars, authVars, pipeVars, roomVars, msgVars, gwVars, wsVars, rsVars, stepVars>>

SanInit ==
  /\ sanInput = <<>>
  /\ sanFn = "none"
  /\ sanOnce = <<>>
  /\ sanTwice = <<>>

\* every input of SanInputs, before any call
InitSanitize ==
  /\ sanInput \in SanInputs
  /\ sanFn = "none"
  /\ sanOnce = <<>>
  /\ sanTwice = <<>>

\* ================================ the heartbeat callback, one await at a time
NoTick == [pc |-> "idle", client |-> ""]

\* the setInterval callback of startUserHeartbeat up to its first await: the
\* client.connected check, then cacheService.updateUserHeartbeat is called
HeartbeatBegin(userId) ==
  /\ hbTick[userId] = NoTick
  /\ heartbeatIntervals[userId] # NoInterval
  /\ now >= heartbeatIntervals[userId].nextAt
  /\ LET client == heartbeatIntervals[userId].client
     IN IF gwSock[client].state # "open"
        THEN /\ heartbeatIntervals' = StopUserHeartbeat(heartbeatIntervals, userId)
             /\ gwLast' = GwCall("heartbeat", client, "", "stopped", FALSE)
             /\ UNCHANGED hbTick
        ELSE /\ heartbeatIntervals' =
                  [heartbeatIntervals EXCEPT ![userId].nextAt = @ + HeartbeatMs]
             /\ hbTick' = [hbTick EXCEPT ![userId] =
                             [pc |-> "updateUserHeartbeat", client |-> client]]
             /\ gwLast' = GwCall("heartbeat", client, "", "started", FALSE)
  /\ gwEmits' = {}
  /\ UNCHANGED <<gwSock, gwChannels, presenceHash, presenceCache, roomUsersHash,
                 userRoomsHash, typingUsers, typingTimers, prCall, prStarted>>
  /\ UNCHANGED <<now, rlVars, authVars, pipeVars, roomVars, msgVars, wsVars, fnVars, rsVars>>

\* the callback resumes: updateUserHeartbeat has written presence:<userId>, or
\* has thrown into the catch block; presenceService.setUserOnline is called
HeartbeatCache(userId, storeOk) ==
  /\ hbTick[userId].pc = "updateUserHeartbeat"
  /\ IF storeOk
     THEN /\ presenceCache' = CacheUserPresence(presenceCache, userId, "online",
                                                hbTick[userId].client)
          /\ hbTick' = [hbTick EXCEPT ![userId].pc = "setUserOnline"]
          /\ UNCHANGED heartbeatIntervals
     ELSE /\ heartbeatIntervals' = StopUserHeartbeat(heartbeatIntervals, userId)
          /\ hbTick' = [hbTick EXCEPT ![userId] = NoTick]
          /\ UNCHANGED presenceCache
  /\ gwEmits' = {}
  /\ gwLast' = GwCall("heartbeat", hbTick[userId].client, "", "cached", FALSE)
  /\ UNCHANGED <<gwSock, gwChannels, presenceHash, roomUsersHash, userRoomsHash,
                 typingUsers, typingTimers, prCall, prStarted>>
  /\ UNCHANGED <<now, rlVars, authVars, pipeVars, roomVars, msgVars, wsVars, fnVars, rsVars>>

\* the callback resumes: setUserOnline has written user:presence, or has
\* thrown; client.emit('ping')
HeartbeatOnline(userId, storeOk) ==
  /\ hbTick[userId].pc = "setUserOnline"
  /\ hbTick' = [hbTick EXCEPT ![userId] = NoTick]
  /\ IF storeOk
     THEN /\ presenceHash' = SetUserOnline(presenceHash, userId, hbTick[userId].client)
          /\ gwEmits' = {GwEvent("ping", "", userId, hbTick[userId].client)}
          /\ gwLast' = GwCall("heartbeat", hbTick[userId].client, "", "ok", FALSE)
          /\ UNCHANGED heartbeatIntervals
     ELSE /\ heartbeatIntervals' = StopUserHeartbeat(heartbeatIntervals, userId)
          /\ gwEmits' = {}
          /\ gwLast' = GwCall("heartbeat", hbTick[userId].client, "", "stopped", FALSE)
          /\ UNCHANGED presenceHash
  /\ UNCHANGED <<gwSock, gwChannels, presenceCache, roomUsersHash, userRoomsHash,
                 typingUsers, typingTimers, prCall, prStarted>>
  /\ UNCHANGED <<now, rlVars, authVars, pipeVars, roomVars, msgVars, wsVars, fnVars, rsVars>>

\* ============================= PresenceService calls, one store call at a time
\* concurrent callers of addUserToRoom, removeUserFromRoom and cleanupUserData
PrCalls == {"p1", "p2"}

NoPrCall == [op |-> "none", pc |-> "idle", userId |-> "", roomId |-> "", todo |-> {}]

\* what a step of a PresenceService call leaves alone
prOthers == <<gwSock, gwChannels, presenceCache, heartbeatIntervals, typingUsers,
              typingTimers, gwEmits, gwLast, hbTick>>

\* a call begins
PrBegin(c) == prCall[c].pc = "idle" /\ prStarted < MaxPresenceCalls

\* addUserToRoom: hset room:users <roomId>:<userId>
PrAddRoomUsers(c, userId, roomId) ==
  /\ PrBegin(c)
  /\ prStarted' = prStarted + 1
  /\ roomUsersHash' = AddRoomUser(roomUsersHash, userId, roomId)
  /\ prCall' = [prCall EXCEPT ![c] = [op |-> "addUserToRoom", pc |-> "add_user_rooms",
                                      userId |-> userId, roomId |-> roomId, todo |-> {}]]
  /\ UNCHANGED <<userRoomsHash, presenceHash, prOthers>>
  /\ UNCHANGED <<now, rlVars, authVars, pipeVars, roomVars, msgVars, wsVars, fnVars, rsVars>>

\* addUserToRoom: hset user:rooms <userId>:<roomId>; return
PrAddUserRooms(c) ==
  /\ prCall[c].pc = "add_user_rooms"
  /\ userRoomsHash' = AddUserRoom(userRoomsHash, prCall[c].userId, prCall[c].roomId)
  /\ prCall' = [prCall EXCEPT ![c].pc = "idle"]
  /\ UNCHANGED <<roomUsersHash, presenceHash, prStarted, prOthers>>
  /\ UNCHANGED <<now, rlVars, authVars, pipeVars, roomVars, msgVars, wsVars, fnVars, rsVars>>

\* removeUserFromRoom: hdel room:users <roomId>:<userId>
PrRemoveRoomUsers(c, userId, roomId) ==
  /\ PrBegin(c)
  /\ prStarted' = prStarted + 1
  /\ roomUsersHash' = RemoveRoomUser(roomUsersHash, userId, roomId)
  /\ prCall' = [prCall EXCEPT ![c] = [op |-> "removeUserFromRoom",
                                      pc |-> "remove_user_rooms",
                                      userId |-> userId, roomId |-> roomId, todo |-> {}]]
  /\ UNCHANGED <<userRoomsHash, presenceHash, prOthers>>
  /\ UNCHANGED <<now, rlVars, authVars, pipeVars, roomVars, msgVars, wsVars, fnVars, rsVars>>

\* removeUserFromRoom: hdel user:rooms <userId>:<roomId>; return
PrRemoveUserRooms(c) ==
  /\ prCall[c].pc = "remove_user_rooms"
  /\ userRoomsHash' = RemoveUserRoom(userRoomsHash, prCall[c].userId, prCall[c].roomId)
  /\ prCall' = [prCall EXCEPT ![c].pc = "idle"]
  /\ UNCHANGED <<roomUsersHash, presenceHash, prStarted, prOthers>>
  /\ UNCHANGED <<now, rlVars, authVars, pipeVars, roomVars, msgVars, wsVars, fnVars, rsVars>>

\* cleanupUserData: const userRooms = await this.getUserRooms(userId)
PrCleanupRead(c, userId) ==
  /\ PrBegin(c)
  /\ prStarted' = prStarted + 1
  /\ prCall' = [prCall EXCEPT ![c] = [op |-> "cleanupUserData", pc |-> "cleanup_loop",
                                      userId |-> userId, roomId |-> "",
                                      todo |-> GetUserRooms(userRoomsHash, userId)]]
  /\ UNCHANGED <<roomUsersHash, userRoomsHash, presenceHash, prOthers>>
  /\ UNCHANGED <<now, rlVars, authVars, pipeVars, roomVars, msgVars, wsVars, fnVars, rsVars>>

\* cleanupUserData, the loop: removeUserFromRoom's hdel on room:users for the
\* next room
PrCleanupRoomUsers(c) ==
  /\ prCall[c].pc = "cleanup_loop"
  /\ \E r \in prCall[c].todo :
       /\ roomUsersHash' = RemoveRoomUser(roomUsersHash, prCall[c].userId, r)
       /\ prCall' = [prCall EXCEPT ![c].pc = "cleanup_user_rooms", ![c].roomId = r]
  /\ UNCHANGED <<userRoomsHash, presenceHash, prStarted, prOthers>>
  /\ UNCHANGED <<now, rlVars, authVars, pipeVars, roomVars, msgVars, wsVars, fnVars, rsVars>>

\* cleanupUserData, the loop: removeUserFromRoom's hdel on user:rooms
PrCleanupUserRooms(c) ==
  /\ prCall[c].pc = "cleanup_user_rooms"
  /\ userRoomsHash' = RemoveUserRoom(userRoomsHash, prCall[c].userId, prCall[c].roomId)
  /\ prCall' = [prCall EXCEPT ![c].pc = "cleanup_loop",
                              ![c].todo = @ \ {prCall[c].roomId}]
  /\ UNCHANGED <<roomUsersHash, presenceHash, prStarted, prOthers>>
  /\ UNCHANGED <<now, rlVars, authVars, pipeVars, roomVars, msgVars, wsVars, fnVars, rsVars>>

\* cleanupUserData after the loop: setUserOffline(userId); return
PrCleanupOffline(c) ==
  /\ prCall[c].pc = "cleanup_loop"
  /\ prCall[c].todo = {}
  /\ presenceHash' = SetUserOffline(presenceHash, prCall[c].userId)
  /\ prCall' = [prCall EXCEPT ![c].pc = "idle"]
  /\ UNCHANGED <<roomUsersHash, userRoomsHash, prStarted, prOthers>>
  /\ UNCHANGED <<now, rlVars, authVars, pipeVars, roomVars, msgVars, wsVars, fnVars, rsVars>>

StepInit ==
  /\ hbTick = [u \in GwUsers |-> NoTick]
  /\ prCall = [c \in PrCalls |-> NoPrCall]
  /\ prStarted = 0

ExtInit == GwInit /\ WsInit /\ SessInit /\ SanInit /\ RsInit /\ StepInit

Init ==
  /\ now = 0
  /\ RLInit
  /\ AuthInit
  /\ PipeInit
  /\ RoomInit
  /\ MsgInit
  /\ ExtInit

\* a room with an earlier history: HistoryDocs messages sent long ago, every
\* cache entry and rate-limit window of that time expired
InitHistory ==
  /\ now = 2 * WaitMs
  /\ RLInit
  /\ AuthInit
  /\ rooms = Rooms
  /\ memberships = {[_id |-> 0, roomId |-> "r1", userId |-> "u1", role |-> "owner"]}
  /\ msgDocs = {HistoryDoc(n) : n \in 1..HistoryDocs}
  /\ recentCache = [r \in Rooms |-> [msgs |-> <<>>, expireAt |-> None]]
  /\ nextMsg = 1
  /\ inboundLog = <<>> /\ moderatedLog = <<>> /\ persistedLog = <<>>
  /\ prodSeq = 0 /\ inOffset = 0 /\ modOffset = 0
  /\ redelivered = 0 /\ deliveries = 0
  /\ inTasks = {} /\ modTasks = {}
  /\ sendPending = [s \in Sockets |-> NoMsg]
  /\ sendErrors = [s \in Sockets |-> FALSE]
  /\ roomEvents = [r \in Rooms |-> <<>>]
  /\ inboundDone = {} /\ moderatedDone = {}
  /\ RoomInit
  /\ MsgInit
  /\ ExtInit

\* the sorted set of an identifier that admitted one request at each of the
\* instants from..to
BurstZset(from, to) == {[member |-> ToString(t), score |-> t] : t \in from..to}

\* after a burst from one address: MessageIPLimit requests in as many
\* milliseconds to a room that does not exist, the last MessageUserLimit of
\* them by u1 and the ones before by u2
InitBurst ==
  /\ now = MessageIPLimit
  /\ rlZset = [id \in RLIdentifiers |->
                 IF id = "message:ip:ip1" THEN BurstZset(1, MessageIPLimit)
                 ELSE IF id = "message:user:u1"
                 THEN BurstZset(MessageIPLimit - MessageUserLimit + 1, MessageIPLimit)
                 ELSE IF id = "message:user:u2"
                 THEN BurstZset(1, MessageIPLimit - MessageUserLimit)
                 ELSE {}]
  /\ rlExpireAt = [id \in RLIdentifiers |->
                     IF id = "message:ip:ip1"
                     THEN MessageIPLimit + MessageIPWindowSeconds * 1000
                     ELSE IF id = "message:user:u1"
                     THEN MessageIPLimit + MessageUserWindowSeconds * 1000
                     ELSE IF id = "message:user:u2"
                     THEN MessageIPLimit - MessageUserLimit + MessageUserWindowSeconds * 1000
                     ELSE None]
  /\ rlPc = [c \in RLCallers |-> "idle"]
  /\ rlId = [c \in RLCallers |-> "message:user:u1"]
  /\ rlNow = [c \in RLCallers |-> 0]
  /\ rlCount = [c \in RLCallers |-> 0]
  /\ rlResult = [c \in RLCallers |-> NoResult]
  /\ rlAdmitted = [id \in RLIdentifiers |-> <<>>]
  /\ AuthInit
  /\ PipeInit
  /\ RoomInit
  /\ MsgInit
  /\ ExtInit

\* Calls executed one at a time: a caller takes a step only while every other
\* caller is outside checkRateLimit.
RLSeqEvict(c) ==
  /\ \A d \in RLCallers \ {c} : rlPc[d] = "idle"
  /\ \E id \in RLCallIds : RLEvict(c, id)

NextRLSeq ==
  \/ Tick
  \/ \E c \in RLCallers :
       RLSeqEvict(c) \/ RLCount(c) \/ RLDeny(c) \/ RLAdd(c) \/ RLExpire(c)

SpecRLSeq == Init /\ [][NextRLSeq]_vars

\* Number of admitted calls of identifier id whose observed time lies in the
\* window (t - window, t].
AdmittedInWindow(id, t) ==
  Cardinality({i \in DOMAIN rlAdmitted[id] :
     /\ rlAdmitted[id][i] > t - RLWindowSeconds * 1000
     /\ rlAdmitted[id][i] <= t})

\* C1: with calls executed one at a time, in every window the number of calls
\* answered allowed=true is at most limit, whatever the clock does (several
\* calls may observe the same millisecond).
C1_SequentialWithinLimit ==
  \A id \in RLIdentifiers : \A t \in 0..MaxNow : AdmittedInWindow(id, t) <= RLLimit

\* Several callers inside checkRateLimit at once, their store steps interleaved.
\* Every call observes a millisecond that no in-flight or admitted call observed,
\* so that two admissions never share a sorted-set member.
FreshMs(c) ==
  /\ \A d \in RLCallers \ {c} : rlPc[d] # "idle" => rlNow[d] # now
  /\ \A id \in RLIdentifiers : \A i \in DOMAIN rlAdmitted[id] : rlAdmitted[id][i] # now

RLConcEvict(c) ==
  /\ FreshMs(c)
  /\ \E id \in RLCallIds : RLEvict(c, id)

NextRLConc ==
  \/ Tick
  \/ \E c \in RLCallers :
       RLConcEvict(c) \/ RLCount(c) \/ RLDeny(c) \/ RLAdd(c) \/ RLExpire(c)

SpecRLConc == Init /\ [][NextRLConc]_vars

\* C2: with concurrent callers whose evict / count / add / expire steps
\* interleave, every admitted call still has at most limit admitted calls
\* (itself included) in the window that ends at its own time.
C2_ConcurrentWithinLimit ==
  \A id \in RLIdentifiers : \A i \in DOMAIN rlAdmitted[id] :
     AdmittedInWindow(id, rlAdmitted[id][i]) <= RLLimit

\* ------------------------------------------------ denylist specification
NextAuth ==
  \/ Tick
  \/ \E u \in Users : Login(u)
  \/ \E t \in issued : Logout(t)
  \/ \E t \in issued : SessionBlacklistRefreshToken(t)
  \/ \E r \in RefreshReqs : \E t \in issued : RefreshGuard(r, t)
  \/ \E r \in RefreshReqs : RefreshCheck(r)
  \/ \E r \in RefreshReqs : RefreshGenerate(r)
  \/ \E r \in RefreshReqs : RefreshRotate(r)

SpecAuth == Init /\ [][NextAuth]_vars

\* C3: a refresh token denylisted by any writer while its exp lay ahead is
\* reported denylisted by every reader (AuthService.refresh, RefreshTokenGuard,
\* SessionService.isRefreshTokenBlacklisted) at every moment before exp.
C3_DenylistedUntilExp ==
  \A t \in denylisted :
     now < t.exp * 1000 =>
        /\ AuthIsBlacklisted(t)
        /\ GuardIsBlacklisted(t)
        /\ SessionIsRefreshTokenBlacklisted(t)

\* C4: no refresh request that began after logout of its (unexpired) token
\* had completed returns new tokens.
C4_RefreshAfterLogoutRejected ==
  \A r \in RefreshReqs : rfAfterLogout[r] => rfResult[r] # "ok"

\* C5: refresh rotates the token: a token whose refresh succeeded is
\* denylisted for as long as it is valid, and at most one refresh request per
\* token returns new tokens.
C5_RefreshRotatesOnce ==
  /\ \A i \in DOMAIN rfOk : JwtVerify(rfOk[i]) => AuthIsBlacklisted(rfOk[i])
  /\ \A i, j \in DOMAIN rfOk : rfOk[i] = rfOk[j] => i = j

\* ------------------------------------------------- pipeline specification
NextPipe ==
  \/ \E s \in Sockets : \E r \in Rooms : \E b \in Bodies : \E ok \in BOOLEAN :
       HandleSendMessage(s, r, b, ok)
  \/ \E s \in Sockets : EmitMessageCreated(s)
  \/ DeliverInbound
  \/ \E i \in 1..MaxMessages : RedeliverInbound(i)
  \/ DeliverModerated
  \/ \E t \in inTasks : \E mr \in ModerateOutcomes : \E sr \in SentimentOutcomes :
       \E ok1, ok2 \in BOOLEAN : HandleInboundMessage(t, mr, sr, ok1, ok2)
  \/ \E t \in modTasks : \E ok \in BOOLEAN : HandleModeratedMessage(t, ok)

SpecPipe == Init /\ [][NextPipe]_vars


\* the events of a topic
Events(log) == {log[k] : k \in 1..Len(log)}

\* the number of broadcasts of an event for a message id on a room's channel
Broadcasts(r, event, id) ==
  Cardinality({k \in 1..Len(roomEvents[r]) :
                 roomEvents[r][k].event = event /\ roomEvents[r][k].id = id})

\* C6: a message never regresses state: a messages.persisted event for an id
\* exists only if a messages.moderated event for that id was produced earlier,
\* and a messages.moderated event exists only if a messages.inbound event for
\* that id was produced earlier.
C6_NoRegression ==
  /\ \A p \in Events(persistedLog) :
       \E m \in Events(moderatedLog) : m.msg.id = p.msg.id /\ m.seq < p.seq
  /\ \A m \in Events(moderatedLog) :
       \E i \in Events(inboundLog) : i.msg.id = m.msg.id /\ i.seq < m.seq

\* C6 witness: a message went through all three topics
C6_PersistedProduced ==
  \E p \in Events(persistedLog) : \E m \in Events(moderatedLog) :
    \E i \in Events(inboundLog) : p.msg.id = m.msg.id /\ m.msg.id = i.msg.id

\* C7: the pipeline always advances: for every event consumed from
\* messages.inbound whose handler has finished (the broker having refused no
\* send), a messages.moderated event with the same id has been produced,
\* carrying the analyzer's verdict when both analyzer calls succeeded and the
\* default verdict when one failed.
C7_PipelineAdvances ==
  \A d \in inboundDone :
    ~d.sendFailed =>
      \E m \in Events(moderatedLog) : m.msg.id = d.id /\ m.msg.moderation = d.expected

\* C8: on a room's channel, message_updated for a message comes after
\* message_created (meta neutral) for the same message, and its payload carries
\* the verdict of the moderated event.
C8_CreatedThenUpdated ==
  \A r \in Rooms : \A j \in 1..Len(roomEvents[r]) :
    LET e == roomEvents[r][j] IN
    /\ e.event = "message_created" => e.hasMeta /\ e.sentiment = "neutral"
    /\ e.event = "message_updated" =>
         /\ \E i \in 1..(j - 1) :
              roomEvents[r][i].event = "message_created" /\ roomEvents[r][i].id = e.id
         /\ e.hasMeta
         /\ \E d \in moderatedDone : d.id = e.id /\ d.moderation.sentiment = e.sentiment

\* C9: every message document is created with meta {neutral, false, []}, and
\* once the moderated event of a message id has been handled the stored
\* document of that id carries the verdict of the event.
C9_MetaRewrittenOnce ==
  \A doc \in msgDocs :
    /\ (\A d \in moderatedDone : d.id # doc._id) =>
         doc.meta = [sentiment |-> "neutral", flagged |-> FALSE, reasons |-> <<>>]
    /\ \A d \in moderatedDone :
         d.id = doc._id =>
           /\ doc.meta.sentiment = d.moderation.sentiment
           /\ doc.meta.reasons = d.moderation.reasons

\* C10: broker replay is safe: whatever is delivered twice, there is at most
\* one messages.persisted event and at most one message_updated emission per
\* message id.
C10_ReplaySafe ==
  \A n \in 1..MaxMessages :
    /\ Cardinality({p \in Events(persistedLog) : p.msg.id = MsgId(n)}) <= 1
    /\ \A r \in Rooms : Broadcasts(r, "message_updated", MsgId(n)) <= 1

\* ------------------------------------------------- RoomsService, concurrent
\* ids a room call may name: the documents and one id without a document
RoomTargets == RoomUsers \cup {NoSuchUser}

NextRooms ==
  \/ \E k \in ConcCalls : \E caller \in RoomUsers : CreateRoomSave(k, caller)
  \/ \E k \in ConcCalls : CreateRoomMember(k)
  \/ \E k \in ConcCalls : \E roomId \in RoomIds : \E userId \in RoomTargets :
       \E role \in Roles : \E caller \in RoomUsers :
         AddMemberCheck(k, roomId, userId, role, caller)
  \/ \E k \in ConcCalls : AddMemberSave(k)
  \/ \E k \in ConcCalls : AddMemberInc(k)
  \/ \E k \in ConcCalls : \E roomId \in RoomIds : \E userId \in RoomTargets :
       \E caller \in RoomUsers : RemoveMemberCheck(k, roomId, userId, caller)
  \/ \E k \in ConcCalls : RemoveMemberDelete(k)
  \/ \E k \in ConcCalls : RemoveMemberInc(k)
  \/ \E k \in ConcCalls : \E roomId \in RoomIds : \E userId \in RoomTargets :
       \E role \in Roles : \E caller \in RoomUsers :
         UpdateMemberRoleCheck(k, roomId, userId, role, caller)
  \/ \E k \in ConcCalls : UpdateMemberRoleWrite(k)

SpecRooms == Init /\ [][NextRooms]_vars

\* --------------------------------------------- RoomsService, one call at a time
NextRoomsSeq ==
  \/ \E caller \in RoomUsers : CreateRoomSave(SeqCall, caller)
  \/ CreateRoomMember(SeqCall)
  \/ \E roomId \in RoomIds : \E userId \in RoomTargets :
       \E role \in Roles : \E caller \in RoomUsers :
         AddMemberCheck(SeqCall, roomId, userId, role, caller)
  \/ AddMemberSave(SeqCall)
  \/ AddMemberInc(SeqCall)
  \/ \E roomId \in RoomIds : \E userId \in RoomTargets :
       \E caller \in RoomUsers : RemoveMemberCheck(SeqCall, roomId, userId, caller)
  \/ RemoveMemberDelete(SeqCall)
  \/ RemoveMemberInc(SeqCall)
  \/ \E roomId \in RoomIds : \E userId \in RoomTargets :
       \E role \in Roles : \E caller \in RoomUsers :
         UpdateMemberRoleCheck(SeqCall, roomId, userId, role, caller)
  \/ UpdateMemberRoleWrite(SeqCall)

SpecRoomsSeq == Init /\ [][NextRoomsSeq]_vars

\* ------------------------------------------------ MessagesService over REST
\* message ids a request may name
MsgRefs == {MsgId(n) : n \in 1..MaxSends}

\* a member sends, lists, edits and deletes over time; a non-member tries too
NextMsg ==
  \/ \E cacheOk \in BOOLEAN : SendMessage("u1", "r1", "ip1", cacheOk, TRUE)
  \/ \E u \in RestUsers : \E roomId \in Rooms \cup {NoSuchRoom} : \E page \in Pages :
       \E limit \in Limits : \E cursor \in {NoCursor, MsgId(1)} :
         GetMessages(u, roomId, page, limit, cursor)
  \/ \E u \in RestUsers : \E id \in MsgRefs : UpdateMessage(u, id)
  \/ \E u \in RestUsers : \E id \in MsgRefs : DeleteMessage(u, id)
  \/ \E u \in RestUsers : \E id \in MsgRefs : GetMessageById(u, id)
  \/ Wait

SpecMsg == Init /\ [][NextMsg]_vars

\* sends by members and non-members, to rooms that exist or not, with and
\* without an address, from a quiet start or right after a burst
InitSend == Init \/ InitBurst

NextSend ==
  \/ \E u \in RestUsers : \E roomId \in Rooms \cup {NoSuchRoom} : \E ip \in RestIPs :
       \E cacheOk, sendOk \in BOOLEAN : SendMessage(u, roomId, ip, cacheOk, sendOk)
  \/ Wait

SpecSend == InitSend /\ [][NextSend]_vars

\* sends and history requests in a room with an earlier history
NextHistory ==
  \/ \E cacheOk \in BOOLEAN : SendMessage("u1", "r1", "ip1", cacheOk, TRUE)
  \/ \E page \in Pages : \E limit \in Limits :
       GetMessages("u1", "r1", page, limit, NoCursor)

SpecHistory == InitHistory /\ [][NextHistory]_vars

\* C11: after deleteMessage(id) has completed, the message is returned by no
\* read: a history request does not list it, whether it is answered from the
\* database or from the cached first page, and getMessageById(id) reports
\* NotFound.
C11_DeletedNeverRead ==
  /\ (lastCall.op = "list" /\ lastCall.result = "ok") =>
       \A i \in 1..Len(lastCall.messages) :
         HasDoc(lastCall.messages[i]._id) =>
           FindDoc(lastCall.messages[i]._id).deletedAt = None
  /\ (lastCall.op = "get" /\ HasDoc(lastCall.id)
        /\ FindDoc(lastCall.id).deletedAt # None) => lastCall.result = "NotFound"

\* the Membership documents of a room
MembersOf(r) == {m \in memberships : m.roomId = r}

\* C12: whenever no RoomsService call is in flight, every room's membersCount
\* equals the number of its Membership documents, whatever the interleaving of
\* createRoom, addMember and removeMember calls was.
C12_MembersCountMatches ==
  (\A k \in RoomCalls : rmPc[k] = "idle") =>
    \A r \in rooms : membersCount[r] = Cardinality(MembersOf(r))

\* C13: every room whose creation has completed has at least one member with
\* role owner, at all times.
C13_AlwaysAnOwner ==
  \A r \in rooms :
    (\A k \in RoomCalls : ~(rmPc[k] = "create_member" /\ rmArgs[k].roomId = r)) =>
      \E m \in MembersOf(r) : m.role = "owner"

\* the removals the room rules permit: caller and target are members, and the
\* caller removes themselves, or is a moderator removing a plain member, or is
\* an owner removing another member who is not an owner
RemovePermitted(callerRole, targetRole, self) ==
  /\ callerRole # "none"
  /\ targetRole # "none"
  /\ \/ self
     \/ (callerRole = "moderator" /\ targetRole = "member")
     \/ (callerRole = "owner" /\ targetRole # "owner")

\* C14: with calls made one at a time, removeMember goes on to remove exactly
\* when caller and target are members of the room and the caller removes
\* themselves, or is a moderator removing a plain member, or is an owner
\* removing another non-owner; every other combination is rejected with
\* Forbidden or NotFound and leaves memberships and membersCount unchanged.  A
\* removal deletes the target's membership only, an owner's only at the
\* owner's own request, and lowers the room's membersCount by one.
C14_RemoveMemberTable ==
  [][\A k \in RoomCalls :
       /\ (rmStarted'[k] = rmStarted[k] + 1 /\ rmArgs'[k].op = "removeMember") =>
            LET a == rmArgs'[k]
                permitted ==
                  /\ a.roomId \in rooms
                  /\ RemovePermitted(MembershipRole(a.roomId, a.caller),
                                     MembershipRole(a.roomId, a.userId),
                                     a.caller = a.userId)
            IN /\ (rmPc'[k] = "rm_delete") <=> permitted
               /\ ~permitted =>
                    /\ rmPc'[k] = "idle"
                    /\ rmResult'[k] \in {"Forbidden", "NotFound"}
                    /\ UNCHANGED <<memberships, membersCount>>
       /\ (rmPc[k] = "rm_delete" /\ rmPc'[k] = "rm_inc") =>
            /\ memberships' =
                 memberships \ {FindMembership(rmArgs[k].roomId, rmArgs[k].userId)}
            /\ \A m \in memberships \ memberships' :
                 m.role = "owner" => rmArgs[k].caller = m.userId
       /\ (rmPc[k] = "rm_inc" /\ rmPc'[k] = "idle") =>
            /\ rmResult'[k] = "ok"
            /\ membersCount'[rmArgs[k].roomId] = membersCount[rmArgs[k].roomId] - 1
    ]_vars

\* C14 witness: a moderator has removed another member
C14_ModeratorRemoved ==
  \E k \in RoomCalls :
    /\ rmPc[k] = "idle"
    /\ rmArgs[k].op = "removeMember"
    /\ rmResult[k] = "ok"
    /\ rmArgs[k].caller # rmArgs[k].userId
    /\ MembershipRole(rmArgs[k].roomId, rmArgs[k].caller) = "moderator"
    /\ ~HasMembership(rmArgs[k].roomId, rmArgs[k].userId)

WindowCount(id, windowSeconds) ==
  Cardinality({e \in ZLive(id) : e.score > now - windowSeconds * 1000})

\* C16: send performs all its checks before any write: when the user's or the
\* address's rate limit is reached (TooManyRequests), the room does not exist
\* (NotFound) or the user is not a member (Forbidden), the send is rejected
\* with that error, no message document is inserted, the hot-message cache is
\* unchanged and no messages.inbound event is produced.
C16_ChecksBeforeWrites ==
  [][\A u \in RestUsers : \A roomId \in Rooms \cup {NoSuchRoom} : \A ip \in RestIPs :
       \A cacheOk, sendOk \in BOOLEAN :
         SendMessage(u, roomId, ip, cacheOk, sendOk) =>
           LET limited ==
                 \/ WindowCount("message:user:" \o u, MessageUserWindowSeconds)
                      >= MessageUserLimit
                 \/ /\ ip # ""
                    /\ WindowCount("message:ip:" \o ip, MessageIPWindowSeconds)
                         >= MessageIPLimit
               rejected == limited \/ roomId \notin rooms \/ ~IsRoomMember(roomId, u)
           IN /\ rejected =>
                   /\ lastCall'.result = IF limited THEN "TooManyRequests"
                                         ELSE IF roomId \notin rooms THEN "NotFound"
                                         ELSE "Forbidden"
                   /\ UNCHANGED <<msgDocs, recentCache, inboundLog>>
              /\ ~rejected => lastCall'.result = "ok"
    ]_vars

\* C16 witness: a send was refused by a rate limit
C16_SendRateLimited ==
  /\ lastCall.op = "send"
  /\ lastCall.result = "TooManyRequests"
  /\ msgDocs = {}

\* C17: once the message document has been inserted, send returns the
\* message's projection even if the cache write or the messages.inbound
\* produce fails: the failure leaves the cache, respectively the topic, as it
\* was, the send is no error and the stored document stays.
C17_SendSurvivesFailures ==
  [][(lastCall'.op = "send" /\ msgDocs' # msgDocs) =>
       /\ lastCall'.result = "ok"
       /\ msgDocs \subseteq msgDocs'
       /\ \E d \in msgDocs' \ msgDocs :
            /\ msgDocs' = msgDocs \cup {d}
            /\ d._id = lastCall'.id
            /\ lastCall'.messages = <<ToMessageResponse(d)>>
       /\ lastCall'.cacheFailed => recentCache' = recentCache
       /\ lastCall'.sendFailed => inboundLog' = inboundLog
    ]_vars

\* C17 witness: a send returned its message although both the cache write and
\* the produce failed
C17_SentDespiteFailures ==
  /\ lastCall.op = "send"
  /\ lastCall.result = "ok"
  /\ lastCall.cacheFailed
  /\ lastCall.sendFailed
  /\ HasDoc(lastCall.id)
  /\ lastCall.messages = <<ToMessageResponse(FindDoc(lastCall.id))>>

\* the projections of a room's non-deleted messages, newest first
RoomHistory(r) ==
  LET sorted == SortDesc({d \in msgDocs : d.roomId = r /\ d.deletedAt = None})
  IN [k \in 1..Len(sorted) |-> ToMessageResponse(sorted[k])]

\* the responses to the history requests for pages 1..n with one limit, joined
RECURSIVE PagesUpTo(_, _, _)
PagesUpTo(r, n, limit) ==
  IF n = 0 THEN <<>>
  ELSE PagesUpTo(r, n - 1, limit) \o ListMessages(r, n, limit, NoCursor)

\* C18: pagination round trip: in every state, the history pages 1..N of a
\* room requested with limit L, joined, are exactly the first N*L non-deleted
\* messages of the room from newest to oldest, also when page 1 is answered
\* from the hot-message cache.
C18_PaginationRoundTrip ==
  \A limit \in Limits : \A n \in Pages :
    PagesUpTo("r1", n, limit) = Slice(RoomHistory("r1"), 0, n * limit)

\* C19: in every reachable state the list cached under recent:room:<roomId>
\* holds at most 50 entries, whichever path wrote it.
C19_CacheAtMost50 ==
  \A r \in Rooms : Len(recentCache[r].msgs) <= RecentCacheMax

\* C20: a history response answered from the hot-message cache carries a
\* projection that differs from its edited or soft-deleted document only within
\* the cache TTL (5 minutes) of that edit or delete.
C20_StaleWithinTtl ==
  (lastCall.op = "list" /\ lastCall.result = "ok" /\ lastCall.fromCache) =>
    \A i \in 1..Len(lastCall.messages) :
      LET p == lastCall.messages[i]
      IN (HasDoc(p._id) /\ p # ToMessageResponse(FindDoc(p._id))) =>
           now - FindDoc(p._id).updatedAt <= RecentCacheTtlSeconds * 1000


\* ======================================================= gateway, from a
\* state in which address ip3 has used up its connection limit and
\* SessionService has denylisted TokU2Denied
InitGateway ==
  /\ now = WebSocketIPLimit
  /\ rlZset = [id \in RLIdentifiers |->
                 IF id = "websocket:ip:ip3" THEN BurstZset(1, WebSocketIPLimit) ELSE {}]
  /\ rlExpireAt = [id \in RLIdentifiers |->
                     IF id = "websocket:ip:ip3"
                     THEN WebSocketIPLimit + WebSocketIPWindowSeconds * 1000 ELSE None]
  /\ rlPc = [c \in RLCallers |-> "idle"]
  /\ rlId = [c \in RLCallers |-> "message:user:u1"]
  /\ rlNow = [c \in RLCallers |-> 0]
  /\ rlCount = [c \in RLCallers |-> 0]
  /\ rlResult = [c \in RLCallers |-> NoResult]
  /\ rlAdmitted = [id \in RLIdentifiers |-> <<>>]
  /\ redisStr = {[key |-> <<"blacklist:token:", TokU2Denied>>,
                  value |-> "{blacklisted:true}",
                  expireAt |-> TokU2Denied.exp * 1000]}
  /\ issued = {}
  /\ rfPc = [r \in RefreshReqs |-> "idle"]
  /\ rfTok = [r \in RefreshReqs |-> NoToken]
  /\ rfNew = [r \in RefreshReqs |-> NoToken]
  /\ rfResult = [r \in RefreshReqs |-> "none"]
  /\ rfAfterLogout = [r \in RefreshReqs |-> FALSE]
  /\ rfStarted = 0
  /\ rfOk = <<>>
  /\ denylisted = {}
  /\ loggedOut = {}
  /\ PipeInit
  /\ RoomInit
  /\ MsgInit
  /\ ExtInit

NextGateway ==
  \/ \E s \in GwSockets : HandleConnection(s)
  \/ \E s \in GwSockets : HandleDisconnect(s)
  \/ \E s \in GwSockets, r \in Rooms : HandleJoinRoom(s, r)
  \/ \E s \in GwSockets, r \in Rooms : HandleLeaveRoom(s, r)
  \/ \E u \in GwUsers, storeOk \in BOOLEAN : Heartbeat(u, storeOk)
  \/ GwTick

SpecGateway == InitGateway /\ [][NextGateway]_vars

\* typing events of the sockets of u1
NextTyping ==
  \/ \E s \in {"g1", "g2"} : HandleConnection(s)
  \/ \E s \in {"g1", "g2"}, isTyping \in BOOLEAN : HandleTyping(s, "r1", isTyping)
  \/ TypingTimeout
  \/ \E u \in GwUsers : Heartbeat(u, TRUE)
  \/ GwTick

SpecTyping == InitGateway /\ [][NextTyping]_vars

\* two send_message events of one socket
NextOrder ==
  \/ \E m \in WsSends : WsGuards(m)
  \/ \E m \in WsSends : WsUserLimit(m)
  \/ \E m \in WsSends : WsIPLimit(m)
  \/ \E m \in WsSends : WsFindRoom(m)
  \/ \E m \in WsSends : WsIsMember(m)
  \/ \E m \in WsSends : WsSave(m)
  \/ \E m \in WsSends : WsCache(m)
  \/ \E m \in WsSends : WsProduce(m, TRUE)
  \/ \E m \in WsSends : WsEmit(m)
  \/ Tick

SpecOrder == Init /\ [][NextOrder]_vars

\* SessionService: denylist writers and validateAccessToken
NextSession ==
  \/ \E t \in SessTokens : SessBlacklistToken(t)
  \/ \E u \in SessUsers : SessBlacklistUser(u)
  \/ \E t \in SessTokens \cup {Undecodable} : SessValidate(t)
  \/ Tick

SpecSession == Init /\ [][NextSession]_vars

\* RateLimitService.checkRateLimit, one caller, store failures and slow calls
NextLimit ==
  \/ \E id \in RLCallIds, failAt \in StoreFailures, elapsed \in {0, TickMs} :
       RateLimitCheck(id, failAt, elapsed)
  \/ Tick

SpecLimit == Init /\ [][NextLimit]_vars

\* the sanitizer applied to each input
InitSan ==
  /\ now = 0
  /\ RLInit /\ AuthInit /\ PipeInit /\ RoomInit /\ MsgInit
  /\ GwInit /\ WsInit /\ SessInit /\ RsInit /\ StepInit
  /\ InitSanitize

NextSanitize == \E fn \in SanFns : Sanitize(fn)

SpecSanitize == InitSan /\ [][NextSanitize]_vars

\* ------------------------------------------------------------------ C21
\* the four checks of handleConnection, stated on the store and the handshake:
\* fewer than WebSocketIPLimit connections of the address in the last
\* WebSocketIPWindowSeconds, a token in the Bearer header or in the query, no
\* denylist entry for it, and a signature and exp that verify
ConnectionChecksPass(h) ==
  LET bearer == h.authorization # <<>> /\ h.authorization[1] = "Bearer "
      token == IF bearer THEN h.authorization[2] ELSE h.queryToken
  IN /\ WindowCount(WebSocketIdentifier(h.address), WebSocketIPWindowSeconds)
          < WebSocketIPLimit
     /\ token # NoToken
     /\ ~\E e \in RedisLive : e.key = <<"blacklist:token:", token>>
     /\ token \in AccessSigned
     /\ now < token.exp * 1000

\* nothing of presence changes in the step, for socket s and for anyone
NoPresenceEffect(s) ==
  /\ presenceHash' = presenceHash
  /\ presenceCache' = presenceCache
  /\ heartbeatIntervals' = heartbeatIntervals
  /\ roomUsersHash' = roomUsersHash
  /\ userRoomsHash' = userRoomsHash
  /\ gwChannels'[s] = {}
  /\ gwEmits' = {}

C22_OfflineToEveryRoom ==
  [][\A s \in GwSockets :
       (gwSock[s].state = "open" /\ gwSock'[s].state = "closed") =>
         /\ heartbeatIntervals'[SocketUserId(s)] = NoInterval
         /\ GetUserRooms(userRoomsHash', SocketUserId(s)) = {}
         /\ \A r \in GetUserRooms(userRoomsHash, SocketUserId(s)) :
              GwEvent("presence", r, SocketUserId(s), "offline") \in gwEmits']_vars

\* ------------------------------------------------------------------ C23
\* the sockets whose heartbeat loop is active: the clients of the intervals
\* that have not been cleared
HeartbeatSockets ==
  {heartbeatIntervals[u].client : u \in {v \in GwUsers : heartbeatIntervals[v] # NoInterval}}

\* C23: at every moment each connected, authenticated socket has an active
\* heartbeat loop of its own, and no loop remains for a socket that has
\* closed, also while the same user has several sockets.
C23_HeartbeatPerSocket ==
  \A s \in GwSockets :
    /\ gwSock[s].state = "open" => s \in HeartbeatSockets
    /\ gwSock[s].state = "closed" => s \notin HeartbeatSockets

\* ------------------------------------------------------------------ C24
\* C24: a user whose presence record was last refreshed more than
\* PresenceTtlSeconds ago is reported offline by the presence registry
\* (getUserPresence / isUserOnline) and by the cached presence record,
\* whether or not a disconnect was processed.
C24_SilentUserOffline ==
  \A u \in GwUsers :
    /\ IsUserOnline(u) => now - GetUserPresence(u).lastSeen <= PresenceTtlSeconds * 1000
    /\ CachedUserPresence(u).status = "online" =>
         now - CachedUserPresence(u).lastSeen <= PresenceTtlSeconds * 1000

\* ------------------------------------------------------------------ C25
\* the pending auto-clear timers of user u in room r
TypingTimersOf(r, u) ==
  {i \in DOMAIN typingTimers : typingTimers[i].roomId = r /\ typingTimers[i].userId = u}

\* C25: for each (room, user) at most one typing auto-clear timer is pending:
\* a newer typing{true} cancels the superseded timer, and an explicit
\* typing{false} leaves no timer pending that would broadcast typing{false}.
C25_OneTypingTimer ==
  \A r \in Rooms, u \in GwUsers :
    /\ Cardinality(TypingTimersOf(r, u)) <= 1
    /\ u \notin typingUsers[r] => TypingTimersOf(r, u) = {}

\* ------------------------------------------------------------------ C26
\* C26: a socket emits send_message A and then B for the same room: A's
\* document is inserted, and gets its createdAt, before B's, and A's
\* message_created is broadcast before B's.
C26_SendOrder ==
  wsPc["A"] # "error" =>
    /\ wsDoc["B"] # NoMsg => wsDoc["A"] # NoMsg
    /\ wsPc["B"] = "done" => wsPc["A"] = "done"

\* ------------------------------------------------------------------ C27
\* the token is on the token denylist
OnTokenDenylist(t) == \E e \in RedisLive : e.key = <<"blacklist:token:", t>>

\* a cutoff entry exists for the token's user and the token's iat, in ms, is
\* before it
CutoffApplies(t) ==
  \E e \in RedisLive : e.key = <<"blacklist:user:", t.sub>> /\ t.iat * 1000 < e.value

\* C27: validateAccessToken(token) returns false when the token is on the
\* token denylist or when the user's all-before cutoff applies, and true only
\* when neither holds.
C27_ValidateCombinesDenylists ==
  [][\A t \in SessTokens :
       SessValidate(t) => (vatResult' <=> ~(OnTokenDenylist(t) \/ CutoffApplies(t)))]_vars

C29_FailsOpen ==
  [][\A id \in RLCallIds, failAt \in StoreFailures, elapsed \in {0, TickMs} :
       (/\ RateLimitCheck(id, failAt, elapsed)
        /\ FailureHit(CheckRateLimit(rlZset, rlExpireAt, id, RLLimit, RLWindowSeconds),
                      failAt))
         => /\ rsResult'.failed
            /\ rsResult'.allowed
            /\ ~rsResult'.threw
            /\ rsResult'.remaining = RLLimit - 1]_vars

\* a check whose store call failed while the window was full of earlier
\* requests, and which answered allowed
C29_AllowedDespiteFailure ==
  /\ rsResult.failed /\ rsResult.allowed /\ ~rsResult.threw
  /\ WindowCount(rsResult.identifier, RLWindowSeconds) >= RLLimit
  /\ \A e \in ZLive(rsResult.identifier) : e.score < rsResult.at

\* ------------------------------------------------------------------ C30
\* C30: the sanitizer is idempotent: for every input x,
\* sanitizeText(sanitizeText(x)) = sanitizeText(x), and likewise for
\* sanitizeRoomName; the output is a fixed point under re-application.
C30_SanitizerIdempotent == sanFn # "none" => sanTwice = sanOnce

\* ------------------------------------------------------------------ C31
\* C31: the messages.inbound event carries the client-submitted body, while
\* every body stored in a message document is the output of
\* sanitizeMessageBody, after a send and also after an update.
C31_StoredBodiesSanitized ==
  /\ \A i \in 1..Len(inboundLog) : inboundLog[i].msg.body = SendBody
  /\ \A d \in msgDocs :
       d.body \in {SanitizeMessageBody(SendBody), SanitizeMessageBody(EditBody)}

\* ------------------------------------------------------------------
\* the gateway's room handlers next to RoomsService.removeMember: two sockets
\* of u1, who removes their own Membership in r1
NextFanout ==
  \/ \E s \in {"g1", "g2"} : HandleConnection(s)
  \/ \E s \in {"g1", "g2"} : HandleDisconnect(s)
  \/ \E s \in {"g1", "g2"}, r \in Rooms : HandleJoinRoom(s, r)
  \/ \E s \in {"g1", "g2"}, r \in Rooms : HandleLeaveRoom(s, r)
  \/ \E r \in Rooms : RemoveMemberCheck(SeqCall, r, "u1", "u1")
  \/ RemoveMemberDelete(SeqCall)
  \/ RemoveMemberInc(SeqCall)

SpecFanout == InitGateway /\ [][NextFanout]_vars

\* ------------------------------------------------------------------ C32
\* C32: leave_room has no membership precondition: whenever an authenticated
\* socket sends leave_room{roomId}, also when its user's Membership in the room
\* has been removed, the socket leaves the channel, removeFromRoom runs and
\* presence is emitted to the room.
C32_LeaveWithoutMembership ==
  [][\A s \in {"g1", "g2"}, r \in Rooms :
       HandleLeaveRoom(s, r) =>
         /\ r \notin gwChannels'[s]
         /\ r \notin GetUserRooms(userRoomsHash', SocketUserId(s))
         /\ GwEvent("presence", r, SocketUserId(s), "offline") \in gwEmits']_vars

IsJsBoolean(v) == v \in {JsBool(TRUE), JsBool(FALSE)}

\* C34: every moderated payload handleInboundMessage builds from a well-formed
\* inbound event, the one with the analyzer's verdict (flagged a boolean) and
\* the default one, passes the producer-side validation for
\* messages.moderated.
C34_ModeratedPayloadsValid ==
  [][\A t \in inTasks, mr \in ModerateOutcomes, sr \in SentimentOutcomes,
        ok1 \in BOOLEAN, ok2 \in BOOLEAN :
       HandleInboundMessage(t, mr, sr, ok1, ok2) =>
         /\ ValidateMessage("messages.moderated", DefaultModeratedPayload(t.msg))
         /\ (mr.ok /\ sr.ok /\ IsJsBoolean(mr.flagged)) =>
              ValidateMessage("messages.moderated", ModeratedPayload(t.msg, mr, sr))]_vars

\* ------------------------------------------------------------------
\* one socket of u1 and its heartbeat callback taken one await at a time
NextBeat ==
  \/ HandleConnection("g1")
  \/ HandleDisconnect("g1")
  \/ \E r \in Rooms : HandleJoinRoom("g1", r)
  \/ \E r \in Rooms : HandleLeaveRoom("g1", r)
  \/ \E u \in GwUsers : HeartbeatBegin(u)
  \/ \E u \in GwUsers, storeOk \in BOOLEAN : HeartbeatCache(u, storeOk)
  \/ \E u \in GwUsers, storeOk \in BOOLEAN : HeartbeatOnline(u, storeOk)
  \/ GwTick

SpecBeat == InitGateway /\ [][NextBeat]_vars

\* ------------------------------------------------------------------ C35
\* C35: after a user's only socket has disconnected and every handler and
\* timer callback in flight has finished, the presence registry records the
\* user as offline, also when a heartbeat tick had started before the
\* disconnect arrived.
C35_OfflineAfterDisconnect ==
  (/\ gwSock["g1"].state = "closed"
   /\ gwSock["g1"].user # NoToken
   /\ hbTick[SocketUserId("g1")] = NoTick)
    => ~IsUserOnline(SocketUserId("g1"))

\* ------------------------------------------------------------------ C36
\* the open sockets whose authenticated user is u
OpenSocketsOf(u) ==
  {s \in GwSockets : gwSock[s].state = "open" /\ gwSock[s].user.sub = u}

\* C36: disconnecting one of several sockets of the same user neither marks
\* the user offline nor removes the user from any room: while another socket
\* of the user stays connected the registry reports the user online and keeps
\* the user's room registrations.
C36_OnlineWhileSocketOpen ==
  [][\A s \in GwSockets :
       (/\ gwSock[s].state = "open" /\ gwSock'[s].state = "closed"
        /\ OpenSocketsOf(SocketUserId(s)) \ {s} # {}
        /\ IsUserOnline(SocketUserId(s)))
         => /\ presenceHash'[SocketUserId(s)].status = "online"
            /\ GetUserRooms(userRoomsHash', SocketUserId(s)) =
                 GetUserRooms(userRoomsHash, SocketUserId(s))]_vars

\* ------------------------------------------------------------------ C37
\* C37: room fan-out reaches members only: in every reachable state each
\* socket subscribed to channel room:<r> belongs to a user who has a
\* Membership in r, also after removeMember and after the auto-join done at
\* connection time.
C37_ChannelsHoldMembersOnly ==
  \A s \in GwSockets : \A r \in gwChannels[s] :
    gwSock[s].state = "open" => IsRoomMember(r, SocketUserId(s))

\* ------------------------------------------------------------------ C38
\* C38: only an owner can grant an elevated role: no call made by a moderator
\* or a plain member creates a Membership with role owner or moderator or
\* changes a Membership to such a role (the owner Membership that createRoom
\* writes for the creator aside).
C38_OnlyOwnerGrantsElevated ==
  [][\A m \in memberships' \ memberships :
       m.role \in {"owner", "moderator"} =>
         \/ rmArgs[SeqCall].op = "createRoom"
         \/ MembershipRole(m.roomId, rmArgs[SeqCall].caller) = "owner"]_vars

\* ------------------------------------------------------------------
\* two concurrent callers of addUserToRoom, removeUserFromRoom and
\* cleanupUserData for user u1 and the rooms of Rooms
NextIndex ==
  \/ \E c \in PrCalls, r \in Rooms : PrAddRoomUsers(c, "u1", r)
  \/ \E c \in PrCalls : PrAddUserRooms(c)
  \/ \E c \in PrCalls, r \in Rooms : PrRemoveRoomUsers(c, "u1", r)
  \/ \E c \in PrCalls : PrRemoveUserRooms(c)
  \/ \E c \in PrCalls : PrCleanupRead(c, "u1")
  \/ \E c \in PrCalls : PrCleanupRoomUsers(c)
  \/ \E c \in PrCalls : PrCleanupUserRooms(c)
  \/ \E c \in PrCalls : PrCleanupOffline(c)

SpecIndex == Init /\ [][NextIndex]_vars

\* ------------------------------------------------------------------ C39
\* C39: whenever no addToRoom, removeFromRoom or cleanupUser call is in
\* flight, roomUsers(r) contains u exactly when userRooms(u) contains r.
C39_IndexesAgree ==
  (\A c \in PrCalls : prCall[c].pc = "idle") =>
    \A u \in GwUsers, r \in Rooms :
      <<r, u>> \in roomUsersHash <=> <<u, r>> \in userRoomsHash

\* ------------------------------------------------------------------ C40
\* C40: the refresh token returned by a successful POST /auth/refresh is not
\* on the denylist when the call returns, also when the refresh happens in
\* the second in which the presented token was issued.
C40_NewTokenUsable ==
  [][\A r \in RefreshReqs :
       RefreshRotate(r) => ~(AuthIsBlacklisted(rfNew[r]))']_vars

====
